---- MODULE Spec2Model ----
(***************************************************************************)
(* Model of the certainty-scoring engine of the AW139 diagnostic server    *)
(* (src/crew_server.py) and of the diagnosis paths that call it.           *)
(*                                                                         *)
(* Representation of text.  A text is a set of phrases and a phrase is a  *)
(* tuple of lower-case words; a query is one phrase.  A Python substring   *)
(* test `needle in text` is the occurrence of the needle's words in a      *)
(* phrase; for one-word needles the test also sees a needle inside a       *)
(* longer word (Infixes).  A regular expression of the form                *)
(* \b(?:a|b|...)\b is the set of its alternatives, matched on whole words. *)
(* Scores are kept in hundredths of a point, so that the weights 0.25,     *)
(* 0.20 and 0.10 are the integers 25, 20 and 10.                           *)
(***************************************************************************)
EXTENDS Integers, Sequences, FiniteSets, TLC

VARIABLES
    documents,      \* rag_result["documents"] of the call
    diagnosis,      \* diagnosis text handed to the scorer
    query,          \* query text
    ata_filter,     \* ATA / training-material filter, a tuple of characters
    task_type,      \* task type string
    has_awdp,       \* AWDP hint of the caller
    path,           \* which entry point runs: "scorer", "three_agent", "crewai", "rag_only"
    pc,             \* "start" or "done"
    result,         \* value returned by calculate_certainty_score
    locals,         \* local values of the scorer at its return (raw total, score after the caps)
    response,       \* DiagnoseResponse (or the HTTP error) of a diagnosis path
    calls,          \* the calls of the scorer in flight in one process (path "calls")
    embeddings_file,    \* rag_api: content of EMBEDDINGS_FILE on disk
    legacy_file,        \* rag_api: content of LEGACY_EMBEDDINGS_FILE on disk
    embeddings_index,   \* rag_api: global embeddings_index
    index_loaded,       \* rag_api: global index_loaded
    last_reload_time,   \* rag_api: global last_reload_time (0: never, 1: some time)
    OPENAI_API_KEY,     \* rag_api: whether the key is configured
    started,            \* rag_api: the startup event has run
    http,               \* rag_api: the latest request served and its response
    rag_query,          \* crew_server: the call of query_rag in flight (loop position, attempts, events)
    embeddings_json,    \* ingest_data: content of EMBEDDINGS_FILE on disk
    checkpoint_file,    \* ingest_data: content of CHECKPOINT_FILE on disk
    ingestion           \* ingest_data: the run of run_ingestion (its locals and position)

vars == <<documents, diagnosis, query, ata_filter, task_type, has_awdp,
          path, pc, result, locals, response, calls,
          embeddings_file, legacy_file, embeddings_index, index_loaded,
          last_reload_time, OPENAI_API_KEY, started, http,
          rag_query, embeddings_json, checkpoint_file, ingestion>>

\* the state of the retrieval service (src/rag_api.py)
rag_vars == <<embeddings_file, legacy_file, embeddings_index, index_loaded,
              last_reload_time, OPENAI_API_KEY, started, http>>

\* the state of crew_server.py
crew_vars == <<documents, diagnosis, query, ata_filter, task_type, has_awdp,
               path, pc, result, locals, response, calls>>

\* the state of ingest_data.py
ingest_vars == <<embeddings_json, checkpoint_file, ingestion>>

inputs == <<documents, diagnosis, query, ata_filter, task_type, has_awdp, path>>

----------------------------------------------------------------------------
(* Bounds of the model *)

MaxQty == 7          \* quantity expressions (number + unit) in a diagnosis
MaxOffDocs == 4      \* retrieved documents of another chapter in one result list
MaxCalls == 3        \* calls of the scorer in flight in one process
MaxDocs == 4         \* documents in an embeddings file
MaxFiles == 3        \* input files of the ingestion
MaxBatchSize == 2    \* largest BATCH_SIZE setting below the number of files
MaxRuns == 2         \* runs of run_ingestion, interrupted ones included
MaxTopK == 3         \* largest top_k of a /query request
MaxRequests == 3     \* requests served by the retrieval service in one run

(* Program constants *)

CERTAINTY_THRESHOLD == 95
TopK == 10

----------------------------------------------------------------------------
(* Text helpers *)

Min(a, b) == IF a < b THEN a ELSE b
Max(a, b) == IF a > b THEN a ELSE b

\* Needle/word pairs of the vocabulary where the needle is a proper
\* substring of the word (Python `in` on strings).
Infixes == {<<"ng", "steering">>, <<"steer", "steering">>, <<"ng", "bearing">>}

\* the contiguous word sequences of the phrases of a text
Grams(text) ==
    UNION {{SubSeq(p, ij[1], ij[2]) :
                ij \in {x \in (1..Len(p)) \X (1..Len(p)) : x[1] <= x[2]}} : p \in text}

\* any(needle in text for needle in needles), on the word sequences of the text
Occurs(needles, grams) ==
    \E g \in grams :
        \/ g \in needles
        \/ Len(g) = 1 /\ \E x \in Infixes : x[2] = g[1] /\ <<x[1]>> \in needles

\* re.search(r'\b(?:alt|alt|...)\b', text), on the word sequences of the text
Matches(alts, grams) == \E g \in grams : g \in alts

\* re.search of a two-token pattern: a word of `heads` followed by a word of `tails`
MatchesPair(heads, tails, grams) ==
    \E g \in grams : Len(g) = 2 /\ g[1] \in heads /\ g[2] \in tails

\* the places <<phrase, index>> of a text where a word of `heads` is followed by another word
Places(heads, text) ==
    {pi \in UNION {{<<p, i>> : i \in 1..(Len(p) - 1)} : p \in text} : pi[1][pi[2]] \in heads}

RECURSIVE SumSeq(_)
SumSeq(s) == IF s = <<>> THEN 0 ELSE s[1] + SumSeq(Tail(s))

\* dict.get(key, default)
Get(d, key, default) == IF key \in DOMAIN d THEN d[key] ELSE default

----------------------------------------------------------------------------
(* 1. Coverage score *)

PRIMUS_EPIC == <<"P","R","I","M","U","S","_","E","P","I","C">>
PT6C_67CD == <<"P","T","6","C","_","6","7","C","D">>
AW139_AIRFRAME == <<"A","W","1","3","9","_","A","I","R","F","R","A","M","E">>

training_keywords(f) ==
    IF f = PRIMUS_EPIC THEN {<<"primus">>, <<"epic">>, <<"avionics">>, <<"cmc">>, <<"fms">>}
    ELSE IF f = PT6C_67CD THEN {<<"pt6c">>, <<"67c">>, <<"engine">>, <<"turbine">>, <<"power", "plant">>}
    ELSE IF f = AW139_AIRFRAME THEN {<<"airframe">>, <<"structure">>, <<"fuselage">>, <<"cabin">>}
    ELSE {}

\* str.replace("ATA ", "")
RECURSIVE ReplaceATA(_)
ReplaceATA(cs) ==
    IF cs = <<>> THEN <<>>
    ELSE IF Len(cs) >= 4 /\ SubSeq(cs, 1, 4) = <<"A", "T", "A", " ">>
         THEN ReplaceATA(SubSeq(cs, 5, Len(cs)))
         ELSE <<cs[1]>> \o ReplaceATA(Tail(cs))

\* str.strip()
RECURSIVE Strip(_)
Strip(cs) ==
    IF cs = <<>> THEN <<>>
    ELSE IF cs[1] = " " THEN Strip(Tail(cs))
    ELSE IF cs[Len(cs)] = " " THEN Strip(SubSeq(cs, 1, Len(cs) - 1))
    ELSE cs

\* the characters of a tuple as one string
RECURSIVE Join(_)
Join(cs) == IF cs = <<>> THEN "" ELSE cs[1] \o Join(Tail(cs))

\* ata_code = ata_filter.replace("ATA ", "").strip() if ata_filter else ""
AtaCode(f) == IF f = <<>> THEN <<>> ELSE Strip(ReplaceATA(f))

\* f"-{ata_code[:2]}-" in doc_path, doc_path being the tuple of the
\* dash-separated segments of the path
InPath(code, doc_path) ==
    \E i \in 2..(Len(doc_path) - 1) : doc_path[i] = Join(SubSeq(code, 1, Min(2, Len(code))))

\* doc_score = doc.get("score", 0) or doc.get("similarity", 0), in hundredths
DocScore(doc) ==
    IF Get(doc, "score", 0) # 0 THEN Get(doc, "score", 0) ELSE Get(doc, "similarity", 0)

\* variant: a code found in no document path applies no narrowing
IsMatchNoNarrowing(doc, f) ==
    IF f \in {PRIMUS_EPIC, PT6C_67CD, AW139_AIRFRAME}
    THEN \/ Occurs(training_keywords(f), Grams(Get(doc, "content", {})))
         \/ Occurs(training_keywords(f), Grams({Get(doc, "doc_path", <<>>)}))
    ELSE TRUE

IsMatch(doc, f) ==
    IF f \in {PRIMUS_EPIC, PT6C_67CD, AW139_AIRFRAME}
    THEN \/ Occurs(training_keywords(f), Grams(Get(doc, "content", {})))
         \/ Occurs(training_keywords(f), Grams({Get(doc, "doc_path", <<>>)}))
    ELSE IF AtaCode(f) # <<>> /\ InPath(AtaCode(f), Get(doc, "doc_path", <<>>)) THEN TRUE
    ELSE AtaCode(f) = <<>>

matching_docs(docs, f) == {i \in 1..Len(docs) : IsMatch(docs[i], f)}

high_relevance_docs(docs, f) == {i \in matching_docs(docs, f) : DocScore(docs[i]) > 70}

\* Outcome of a division by zero (Python raises ZeroDivisionError)
ZeroDivisionError == -1

\* coverage_ratio = matching_docs / doc_count and the tiers on it
\* variant: the ratio thresholds are exclusive
CoverageTierExclusive(m, doc_count, h) ==
    IF doc_count = 0 THEN ZeroDivisionError
    ELSE IF 10 * m > 8 * doc_count /\ h >= 3 THEN 100
    ELSE IF 10 * m > 8 * doc_count THEN 85
    ELSE IF 10 * m > 5 * doc_count THEN 65
    ELSE IF 10 * m > 2 * doc_count THEN 40
    ELSE 15

CoverageTier(m, doc_count, h) ==
    IF doc_count = 0 THEN ZeroDivisionError
    ELSE IF 10 * m >= 8 * doc_count /\ h >= 3 THEN 100
    ELSE IF 10 * m >= 8 * doc_count THEN 85
    ELSE IF 10 * m >= 5 * doc_count THEN 65
    ELSE IF 10 * m >= 2 * doc_count THEN 40
    ELSE 15

\* variant: the ratio is computed without the test for an empty document list
coverage_score_unguarded(docs, f) ==
    CoverageTier(Cardinality(matching_docs(docs, f)), Len(docs),
                 Cardinality(high_relevance_docs(docs, f)))

coverage_score(docs, f) ==
    IF Len(docs) = 0 THEN 0
    ELSE CoverageTier(Cardinality(matching_docs(docs, f)), Len(docs),
                      Cardinality(high_relevance_docs(docs, f)))

----------------------------------------------------------------------------
(* 2. System analysis score *)

ComponentNouns ==
    {<<"actuator">>, <<"valve">>, <<"pump">>, <<"generator">>, <<"starter">>, <<"relay">>,
     <<"contactor">>, <<"solenoid">>, <<"bearing">>, <<"seal">>, <<"bushing">>, <<"link">>,
     <<"rod">>, <<"arm">>, <<"gear">>, <<"shaft">>, <<"damper">>, <<"accumulator">>,
     <<"filter">>, <<"regulator">>, <<"transducer">>, <<"steering">>, <<"shimmy">>,
     <<"oleo">>, <<"strut">>, <<"torque", "link">>, <<"scissor">>, <<"swashplate">>,
     <<"servo">>, <<"pitch", "link">>, <<"collective">>, <<"pedal">>, <<"connector">>,
     <<"harness">>, <<"bus">>, <<"breaker">>, <<"ground", "point">>}

\* the alternatives without wildcards; the vocabulary has no sentence of the
\* forms "when ... the ... cannot" and "if ... then ..."
CausalPhrases ==
    {<<"because">>, <<"due", "to">>, <<"caused", "by">>, <<"resulting", "from">>,
     <<"leads", "to">>, <<"prevents">>, <<"restricts">>, <<"blocks">>, <<"fails", "to">>,
     <<"unable", "to">>, <<"this", "causes">>, <<"this", "results">>,
     <<"this", "prevents">>, <<"this", "restricts">>}

MechanismPhrases ==
    {<<"mechanism">>, <<"assembly">>, <<"linkage">>,
     <<"hydraulic", "line">>, <<"hydraulic", "circuit">>, <<"hydraulic", "system">>,
     <<"electrical", "circuit">>, <<"electrical", "path">>, <<"electrical", "bus">>,
     <<"control", "chain">>, <<"control", "path">>, <<"control", "loop">>,
     <<"mechanical", "connection">>, <<"mechanical", "linkage">>, <<"mechanical", "system">>,
     <<"steering", "mechanism">>, <<"steering", "system">>, <<"steering", "assembly">>}

Digits == {"0", "1", "2", "3", "4", "5", "6", "7", "8", "9"}

LocationWords ==
    {<<"lh">>, <<"rh">>, <<"left">>, <<"right">>, <<"forward">>, <<"aft">>, <<"upper">>,
     <<"lower">>, <<"inboard">>, <<"outboard">>}

FailureModes ==
    {<<"worn">>, <<"corroded">>, <<"seized">>, <<"cracked">>, <<"broken">>, <<"leaking">>,
     <<"loose">>, <<"intermittent">>, <<"open", "circuit">>, <<"short", "circuit">>,
     <<"grounded">>, <<"binding">>, <<"sticking">>, <<"jammed">>, <<"jamming">>,
     <<"frozen">>, <<"stripped">>, <<"fatigued">>, <<"deformed">>, <<"contaminated">>,
     <<"degraded">>, <<"misaligned">>}


\* the five analysis flags, on the word sequences g of the diagnosis
has_specific_component(g) == Matches(ComponentNouns, g)
has_causal_reasoning(g) == Matches(CausalPhrases, g)
has_mechanism_explanation(g) == Matches(MechanismPhrases, g)
has_specific_location(g) ==
    \/ Matches(LocationWords, g)
    \/ MatchesPair({"station", "frame", "bay", "zone", "rack", "shelf", "panel"}, Digits, g)
has_failure_mode(g) == Matches(FailureModes, g)

\* variant: a specific location adds 10 points
analysis_points_location_10(e) ==
      (IF e.has_specific_component THEN 25 ELSE 0)
    + (IF e.has_causal_reasoning THEN 25 ELSE 0)
    + (IF e.has_mechanism_explanation THEN 20 ELSE 0)
    + (IF e.has_specific_location THEN 10 ELSE 0)
    + (IF e.has_failure_mode THEN 15 ELSE 0)

\* e: the evidence flags of the call (Extract below)
analysis_points(e) ==
      (IF e.has_specific_component THEN 25 ELSE 0)
    + (IF e.has_causal_reasoning THEN 25 ELSE 0)
    + (IF e.has_mechanism_explanation THEN 20 ELSE 0)
    + (IF e.has_specific_location THEN 15 ELSE 0)
    + (IF e.has_failure_mode THEN 15 ELSE 0)

\* variant: no limit of 50 for a diagnosis without causal reasoning
system_analysis_score_uncapped_causal(e) ==
    LET s0 == Min(analysis_points(e), 100)
    IN  IF ~e.has_specific_component /\ ~e.has_mechanism_explanation
        THEN Min(s0, 30) ELSE s0

system_analysis_score(e) ==
    LET s0 == Min(analysis_points(e), 100)
        s1 == IF ~e.has_specific_component /\ ~e.has_mechanism_explanation
              THEN Min(s0, 30) ELSE s0
    IN  IF ~e.has_causal_reasoning THEN Min(s1, 50) ELSE s1

----------------------------------------------------------------------------
(* 3. Evidence score *)

\* words that are numbers (\d+\.?\d*)
Numbers == {"5", "20", "25", "28", "120", "3000", "0.5", "7", "12"}

evidence_kinds ==
    <<"torque", "pressure", "voltage", "current", "temperature", "dimension", "resistance">>

\* units of evidence_patterns
evidence_patterns(kind) ==
    CASE kind = "torque" -> {"nm", "lb-in", "ft-lb", "lb-ft"}
      [] kind = "pressure" -> {"psi", "bar", "kpa", "mpa"}
      [] kind = "voltage" -> {"v", "mv", "kv"}
      [] kind = "current" -> {"a", "ma"}
      [] kind = "temperature" -> {"c", "f"}
      [] kind = "dimension" -> {"mm", "cm", "m", "in", "ft"}
      [] kind = "resistance" -> {"ohm", "kohm"}

\* words of the vocabulary in the DMC format \d{2}-[A-Z]-\d{2}-\d{2}-\d{2}-\d{2}[A-Z]?
DmcCodes == {<<"39-a-32-10-00-00">>}
\* words in the format \d{2}-\d{2}-\d{2} that follows AMP / AMM
AmpSections == {"32-10-00"}
\* words that start with two digits, as required after AWD / AWDP
TwoDigits == {"32", "24"}
\* words in the part-number formats 3G\d{4}[A-Z0-9-]+ and \d{3}-\d{4}-\d{2}
PartNumbers == {<<"3g3240a00131">>, <<"109-0741-52">>}

has_real_dmc(g) == Matches(DmcCodes, g)
has_amp_ref(g) == MatchesPair({"amp", "amm"}, AmpSections, g)
has_awdp_ref(g) == MatchesPair({"awd", "awdp"}, TwoDigits, g)
has_real_part_number(g) == Matches(PartNumbers, g)
has_connector_pin(g) ==
    \/ MatchesPair({"pin"}, Numbers \cup Digits, g)
    \/ MatchesPair({"connector", "plug"}, Digits, g)

\* sum over evidence_patterns of len(re.findall(pattern, diagnosis))
quantity_matches(d) ==
    LET places == Places(Numbers, d)
    IN  SumSeq([k \in 1..Len(evidence_kinds) |->
                  Cardinality({pi \in places :
                      pi[1][pi[2] + 1] \in evidence_patterns(evidence_kinds[k])})])

evidence_count(e) ==
      e.quantity_matches
    + (IF e.has_real_dmc THEN 3 ELSE 0)
    + (IF e.has_amp_ref THEN 2 ELSE 0)
    + (IF e.has_awdp_ref THEN 2 ELSE 0)
    + (IF e.has_real_part_number THEN 2 ELSE 0)
    + (IF e.has_connector_pin THEN 1 ELSE 0)

\* variant: the tier of no evidence is left out
EvidenceTierNoZero(n) ==
    IF n <= 2 THEN 20
    ELSE IF n <= 4 THEN 40
    ELSE IF n <= 6 THEN 60
    ELSE IF n <= 9 THEN 80
    ELSE 100

\* variant: the top tier starts at 11 instead of 10
EvidenceTierLateTop(n) ==
    IF n = 0 THEN 0
    ELSE IF n <= 2 THEN 20
    ELSE IF n <= 4 THEN 40
    ELSE IF n <= 6 THEN 60
    ELSE IF n <= 10 THEN 80
    ELSE 100

EvidenceTier(n) ==
    IF n = 0 THEN 0
    ELSE IF n <= 2 THEN 20
    ELSE IF n <= 4 THEN 40
    ELSE IF n <= 6 THEN 60
    ELSE IF n <= 9 THEN 80
    ELSE 100

evidence_score(e) == EvidenceTier(evidence_count(e))

----------------------------------------------------------------------------
(* 4. Query-diagnosis alignment score *)

subsystem_map ==
    <<[name |-> "steering",
        triggers |-> {<<"turn">>, <<"turning">>, <<"steer">>, <<"steering">>, <<"taxi">>,
                     <<"taxing">>, <<"taxiing">>, <<"ground", "maneuver">>},
        required |-> {<<"steering">>, <<"nose", "wheel">>, <<"nosewheel">>,
                     <<"nose", "gear">>, <<"nose", "landing", "gear">>,
                     <<"shimmy", "damper">>, <<"torque", "link">>,
                     <<"steering", "actuator">>, <<"steering", "valve">>,
                     <<"steering", "cylinder">>, <<"castering">>, <<"tiller">>},
        label |-> "Nose Wheel Steering System"],
       [name |-> "landing_gear",
        triggers |-> {<<"landing", "gear">>, <<"gear">>, <<"retract">>, <<"extend">>,
                     <<"gear", "up">>, <<"gear", "down">>, <<"squat", "switch">>,
                     <<"weight", "on", "wheels">>, <<"wow">>},
        required |-> {<<"landing", "gear">>, <<"actuator">>, <<"uplock">>, <<"downlock">>,
                     <<"squat", "switch">>, <<"gear", "door">>, <<"oleo">>, <<"strut">>,
                     <<"retract">>, <<"extend">>, <<"selector", "valve">>},
        label |-> "Landing Gear System"],
       [name |-> "hydraulic",
        triggers |-> {<<"hydraulic">>, <<"pressure">>, <<"pump">>, <<"fluid">>, <<"leak">>},
        required |-> {<<"hydraulic", "pump">>, <<"reservoir">>, <<"accumulator">>,
                     <<"pressure", "switch">>, <<"relief", "valve">>,
                     <<"hydraulic", "module">>, <<"servo">>, <<"actuator">>, <<"manifold">>,
                     <<"filter">>, <<"hydraulic", "system">>},
        label |-> "Hydraulic System"],
       [name |-> "engine",
        triggers |-> {<<"engine">>, <<"turbine">>, <<"power">>, <<"torque">>, <<"ng">>,
                     <<"np">>, <<"itt">>, <<"start">>, <<"hot", "start">>,
                     <<"hung", "start">>, <<"flameout">>, <<"ecu">>, <<"fadec">>},
        required |-> {<<"engine">>, <<"turbine">>, <<"compressor">>, <<"combustion">>,
                     <<"fuel", "control">>, <<"fuel", "nozzle">>, <<"igniter">>,
                     <<"gearbox">>, <<"oil">>, <<"bearing">>, <<"fadec">>, <<"ecu">>},
        label |-> "Engine/Powerplant System"],
       [name |-> "electrical",
        triggers |-> {<<"generator">>, <<"battery">>, <<"bus">>, <<"power", "loss">>,
                     <<"electrical">>, <<"voltage">>, <<"breaker">>, <<"tripped">>,
                     <<"no", "power">>},
        required |-> {<<"generator">>, <<"battery">>, <<"bus">>, <<"contactor">>,
                     <<"breaker">>, <<"relay">>, <<"transformer">>, <<"rectifier">>,
                     <<"inverter">>, <<"gcr">>, <<"gcb">>, <<"btb">>},
        label |-> "Electrical Power System"],
       [name |-> "flight_controls",
        triggers |-> {<<"cyclic">>, <<"collective">>, <<"pedal">>, <<"yaw">>, <<"pitch">>,
                     <<"roll">>, <<"autopilot">>, <<"trim">>, <<"stick">>, <<"vibration">>},
        required |-> {<<"servo">>, <<"actuator">>, <<"swashplate">>, <<"pitch", "link">>,
                     <<"mixing", "unit">>, <<"trim">>, <<"boost">>, <<"feel", "spring">>,
                     <<"gradient", "unit">>, <<"autopilot">>},
        label |-> "Flight Control System"],
       [name |-> "rotor",
        triggers |-> {<<"rotor">>, <<"blade">>, <<"hub">>, <<"mast">>, <<"tail", "rotor">>,
                     <<"main", "rotor">>, <<"track">>, <<"balance">>, <<"vibration">>,
                     <<"lead-lag">>},
        required |-> {<<"rotor">>, <<"blade">>, <<"hub">>, <<"damper">>, <<"bearing">>,
                     <<"pitch", "horn">>, <<"lead-lag">>, <<"drag", "brace">>,
                     <<"elastomeric">>, <<"spindle">>},
        label |-> "Rotor System"],
       [name |-> "avionics",
        triggers |-> {<<"display">>, <<"screen">>, <<"cas">>, <<"warning">>, <<"caution">>,
                     <<"advisory">>, <<"radio">>, <<"nav">>, <<"gps">>, <<"transponder">>,
                     <<"ahrs">>, <<"adc">>},
        required |-> {<<"display">>, <<"processor">>, <<"symbol", "generator">>, <<"dmu">>,
                     <<"dcu">>, <<"sensor">>, <<"computer">>, <<"bus">>, <<"arinc">>,
                     <<"can", "bus">>},
        label |-> "Avionics System"],
       [name |-> "fuel",
        triggers |-> {<<"fuel">>, <<"tank">>, <<"boost", "pump">>, <<"transfer">>,
                     <<"crossfeed">>, <<"quantity">>},
        required |-> {<<"fuel", "pump">>, <<"fuel", "tank">>, <<"fuel", "valve">>,
                     <<"boost", "pump">>, <<"transfer", "pump">>, <<"crossfeed">>,
                     <<"fuel", "quantity">>, <<"fuel", "filter">>, <<"fuel", "line">>},
        label |-> "Fuel System"]>>

\* labels of the subsystems of subsystem_map[k..] whose trigger is in the query
\* (word sequences qg) and none of whose required terms is in the diagnosis
\* (word sequences g), in table order
RECURSIVE MissingFrom(_, _, _)
MissingFrom(k, qg, g) ==
    IF k > Len(subsystem_map) THEN <<>>
    ELSE (IF Occurs(subsystem_map[k].triggers, qg) /\ ~Occurs(subsystem_map[k].required, g)
          THEN <<subsystem_map[k].label>> ELSE <<>>)
         \o MissingFrom(k + 1, qg, g)

\* variant: the loop stops at the first subsystem found missing
first_missing_subsystem(qg, g) ==
    IF MissingFrom(1, qg, g) = <<>> THEN <<>> ELSE <<MissingFrom(1, qg, g)[1]>>

missing_subsystem_analysis(qg, g) == MissingFrom(1, qg, g)

stop_words ==
    {"does", "have", "been", "with", "that", "this", "from", "what", "when", "where",
     "which", "there", "their", "about", "would", "could", "should", "during", "before",
     "after", "helicopter", "aircraft", "system", "problem", "issue", "fault", "check"}

\* words removed by the re.sub calls on the query ("aw139"; the vocabulary has
\* no bracketed tag, "ata NN" or "s/n NN")
query_clean(q) == SelectSeq(q, LAMBDA w : w # "aw139")

\* important_words are the matches of \b[a-z]{4,}\b, the words of the
\* vocabulary being alphabetic
query_keywords(q) ==
    {w \in {query_clean(q)[i] : i \in 1..Len(query_clean(q))} :
        Len(w) >= 4 /\ w \notin stop_words}

\* sum(1 for kw in query_keywords if kw in diagnosis_lower)
matched_keywords(q, g) == Cardinality({kw \in query_keywords(q) : Occurs({<<kw>>}, g)})

\* keyword_ratio = matched_keywords / len(query_keywords) and the tiers on it
KeywordTier(matched, total) ==
    IF total = 0 THEN ZeroDivisionError
    ELSE IF 10 * matched >= 6 * total THEN 100
    ELSE IF 10 * matched >= 4 * total THEN 70
    ELSE IF 10 * matched >= 2 * total THEN 45
    ELSE 20

GenericPhrases ==
    {<<"check", "continuity">>, <<"verify", "wiring">>, <<"inspect", "connector">>,
     <<"check", "hydraulic">>}

ElectricalTerms ==
    {<<"continuity">>, <<"wiring">>, <<"circuit">>, <<"resistance">>, <<"voltage">>}

MechanicalTriggers ==
    {<<"turn">>, <<"steering">>, <<"gear">>, <<"stuck">>, <<"binding">>, <<"seized">>,
     <<"jam">>, <<"stiff">>, <<"vibration">>, <<"noise">>, <<"grind">>, <<"click">>,
     <<"play">>, <<"loose">>, <<"worn">>}

\* the evidence flags: every test the scorer makes on the diagnosis d and the query q
Extract(d, q) ==
    LET g == Grams(d)
        qg == Grams({q})
    IN  [has_specific_component |-> has_specific_component(g),
         has_causal_reasoning |-> has_causal_reasoning(g),
         has_mechanism_explanation |-> has_mechanism_explanation(g),
         has_specific_location |-> has_specific_location(g),
         has_failure_mode |-> has_failure_mode(g),
         quantity_matches |-> quantity_matches(d),
         has_real_dmc |-> has_real_dmc(g),
         has_amp_ref |-> has_amp_ref(g),
         has_awdp_ref |-> has_awdp_ref(g),
         has_real_part_number |-> has_real_part_number(g),
         has_connector_pin |-> has_connector_pin(g),
         missing_subsystem_analysis |-> missing_subsystem_analysis(qg, g),
         query_keywords |-> Cardinality(query_keywords(q)),
         matched_keywords |-> matched_keywords(q, g),
         generic_phrase |-> Occurs(GenericPhrases, g),
         diagnosis_suggests_electrical |-> Occurs(ElectricalTerms, g),
         query_implies_mechanical |-> Occurs(MechanicalTriggers, qg)]

is_generic_diagnosis(e) ==
    e.generic_phrase /\ ~e.has_specific_component /\ ~e.has_mechanism_explanation

electrical_mismatch(e) ==
    e.diagnosis_suggests_electrical /\ e.query_implies_mechanical
        /\ ~e.has_mechanism_explanation

\* variant: the subsystem gating penalty is left out
alignment_score_ungated(e) ==
    LET a0 == IF e.query_keywords # 0
              THEN KeywordTier(e.matched_keywords, e.query_keywords)
              ELSE 50
        a2 == IF is_generic_diagnosis(e) THEN Min(a0, 35) ELSE a0
    IN  IF a0 = ZeroDivisionError THEN ZeroDivisionError
        ELSE IF electrical_mismatch(e) THEN Min(a2, 40) ELSE a2

\* variant: the penalty for a generic diagnosis is left out
alignment_score_without_generic(e) ==
    LET a0 == IF e.query_keywords # 0
              THEN KeywordTier(e.matched_keywords, e.query_keywords)
              ELSE 50
        a1 == IF e.missing_subsystem_analysis # <<>> THEN Min(a0, 25) ELSE a0
    IN  IF a0 = ZeroDivisionError THEN ZeroDivisionError
        ELSE IF electrical_mismatch(e) THEN Min(a1, 40) ELSE a1

alignment_score(e) ==
    LET a0 == IF e.query_keywords # 0
              THEN KeywordTier(e.matched_keywords, e.query_keywords)
              ELSE 50
        a1 == IF e.missing_subsystem_analysis # <<>> THEN Min(a0, 25) ELSE a0
        a2 == IF is_generic_diagnosis(e) THEN Min(a1, 35) ELSE a1
    IN  IF a0 = ZeroDivisionError THEN ZeroDivisionError
        ELSE IF electrical_mismatch(e) THEN Min(a2, 40) ELSE a2

----------------------------------------------------------------------------
(* 5. Diagram / schematic analysis score *)

\* variant: only fault_isolation counts as a fault type
is_fault_isolation_only(t) == t = "fault_isolation"

is_fault_type(t) == t \in {"fault_isolation", "operational_test", "functional_test"}
is_procedure_type(t) ==
    t \in {"remove_procedure", "install_procedure", "disassembly", "assembly"}

\* variant: a reference without the document counts as much as the document
\* without a reference
diagram_score_reference_70(e, t, awdp) ==
    IF is_fault_type(t)
    THEN IF awdp /\ e.has_awdp_ref THEN 100
         ELSE IF awdp \/ e.has_awdp_ref THEN 70
         ELSE 20
    ELSE IF is_procedure_type(t)
    THEN IF e.has_amp_ref \/ e.has_real_dmc THEN 100 ELSE 40
    ELSE IF e.has_amp_ref \/ e.has_real_dmc \/ e.has_awdp_ref THEN 100 ELSE 50

diagram_score(e, t, awdp) ==
    IF is_fault_type(t)
    THEN IF awdp /\ e.has_awdp_ref THEN 100
         ELSE IF awdp THEN 70
         ELSE IF e.has_awdp_ref THEN 60
         ELSE 20
    ELSE IF is_procedure_type(t)
    THEN IF e.has_amp_ref \/ e.has_real_dmc THEN 100 ELSE 40
    ELSE IF e.has_amp_ref \/ e.has_real_dmc \/ e.has_awdp_ref THEN 100 ELSE 50

----------------------------------------------------------------------------
(* Final score: weighted sum, hard caps, 95% gate, rounding *)

\* the values the final calculation reads
Facts(docs, d, q, f, t, awdp) ==
    LET e == Extract(d, q)
    IN  [coverage_score |-> coverage_score(docs, f),
         system_analysis_score |-> system_analysis_score(e),
         evidence_count |-> evidence_count(e),
         evidence_score |-> evidence_score(e),
         alignment_score |-> alignment_score(e),
         diagram_score |-> diagram_score(e, t, awdp),
         has_specific_component |-> e.has_specific_component,
         has_causal_reasoning |-> e.has_causal_reasoning,
         has_amp_ref |-> e.has_amp_ref,
         has_real_dmc |-> e.has_real_dmc,
         has_awdp_ref |-> e.has_awdp_ref,
         has_real_part_number |-> e.has_real_part_number,
         is_generic_diagnosis |-> is_generic_diagnosis(e),
         missing_subsystem_analysis |-> e.missing_subsystem_analysis,
         electrical_mismatch |-> electrical_mismatch(e),
         is_fault_type |-> is_fault_type(t),
         task_type |-> t,
         has_awdp |-> awdp,
         flags |-> e]

\* final_score before the caps, in hundredths
raw_score(x) ==
      x.coverage_score * 25 + x.system_analysis_score * 25 + x.evidence_score * 20
    + x.alignment_score * 20 + x.diagram_score * 10

\* variant: the cap assigns its limit without comparing it with final_score
CapAlways(st, cond, limit, text, subs) ==
    IF cond
    THEN [score |-> limit * 100,
          caps |-> Append(st.caps, [text |-> text, subsystems |-> subs]),
          seen |-> Append(st.seen, st.score)]
    ELSE [st EXCEPT !.seen = Append(st.seen, st.score)]

\* if cond: if final_score > limit: final_score = limit; caps_applied.append(text)
\* (seen records the value of final_score that reaches each cap)
Cap(st, cond, limit, text, subs) ==
    IF cond /\ st.score > limit * 100
    THEN [score |-> limit * 100,
          caps |-> Append(st.caps, [text |-> text, subsystems |-> subs]),
          seen |-> Append(st.seen, st.score)]
    ELSE [st EXCEPT !.seen = Append(st.seen, st.score)]

\* variant: the cap for a diagnosis without manual references is left out
HardCapsNoReferenceCap(x) ==
    LET c0 == [score |-> raw_score(x), caps |-> <<>>, seen |-> <<>>]
        c1 == Cap(c0, x.is_fault_type /\ ~x.has_awdp /\ ~x.has_awdp_ref, 85,
                  "CAP 85%: Fault isolation without AWDP/wiring analysis", <<>>)
        c2 == Cap(c1, x.is_generic_diagnosis, 80,
                  "CAP 80%: Generic diagnosis without specific component analysis", <<>>)
        c3 == Cap(c2, FALSE, 85,
                  "CAP 85%: No specific manual references (DMC/AMP/AWDP)", <<>>)
        c4 == Cap(c3, ~x.has_specific_component /\ ~x.has_real_part_number, 82,
                  "CAP 82%: No specific component or part number identified", <<>>)
        c5 == Cap(c4, ~x.has_causal_reasoning /\ x.is_fault_type, 80,
                  "CAP 80%: Fault isolation without causal reasoning", <<>>)
        c6 == Cap(c5, x.missing_subsystem_analysis # <<>>, 75,
                  "CAP 75%: Diagnosis does not analyze required subsystem",
                  x.missing_subsystem_analysis)
    IN  Cap(c6, x.electrical_mismatch, 78,
            "CAP 78%: Electrical checks for mechanical problem without mechanism analysis",
            <<>>)

\* variant: a part number counts as a manual reference for the cap of 85
HardCapsPartNumberAsReference(x) ==
    LET c0 == [score |-> raw_score(x), caps |-> <<>>, seen |-> <<>>]
        c1 == Cap(c0, x.is_fault_type /\ ~x.has_awdp /\ ~x.has_awdp_ref, 85,
                  "CAP 85%: Fault isolation without AWDP/wiring analysis", <<>>)
        c2 == Cap(c1, x.is_generic_diagnosis, 80,
                  "CAP 80%: Generic diagnosis without specific component analysis", <<>>)
        c3 == Cap(c2, ~x.has_amp_ref /\ ~x.has_real_dmc /\ ~x.has_awdp_ref
                      /\ ~x.has_real_part_number, 85,
                  "CAP 85%: No specific manual references (DMC/AMP/AWDP)", <<>>)
        c4 == Cap(c3, ~x.has_specific_component /\ ~x.has_real_part_number, 82,
                  "CAP 82%: No specific component or part number identified", <<>>)
        c5 == Cap(c4, ~x.has_causal_reasoning /\ x.is_fault_type, 80,
                  "CAP 80%: Fault isolation without causal reasoning", <<>>)
        c6 == Cap(c5, x.missing_subsystem_analysis # <<>>, 75,
                  "CAP 75%: Diagnosis does not analyze required subsystem",
                  x.missing_subsystem_analysis)
    IN  Cap(c6, x.electrical_mismatch, 78,
            "CAP 78%: Electrical checks for mechanical problem without mechanism analysis",
            <<>>)

HardCaps(x) ==
    LET c0 == [score |-> raw_score(x), caps |-> <<>>, seen |-> <<>>]
        c1 == Cap(c0, x.is_fault_type /\ ~x.has_awdp /\ ~x.has_awdp_ref, 85,
                  "CAP 85%: Fault isolation without AWDP/wiring analysis", <<>>)
        c2 == Cap(c1, x.is_generic_diagnosis, 80,
                  "CAP 80%: Generic diagnosis without specific component analysis", <<>>)
        c3 == Cap(c2, ~x.has_amp_ref /\ ~x.has_real_dmc /\ ~x.has_awdp_ref, 85,
                  "CAP 85%: No specific manual references (DMC/AMP/AWDP)", <<>>)
        c4 == Cap(c3, ~x.has_specific_component /\ ~x.has_real_part_number, 82,
                  "CAP 82%: No specific component or part number identified", <<>>)
        c5 == Cap(c4, ~x.has_causal_reasoning /\ x.is_fault_type, 80,
                  "CAP 80%: Fault isolation without causal reasoning", <<>>)
        c6 == Cap(c5, x.missing_subsystem_analysis # <<>>, 75,
                  "CAP 75%: Diagnosis does not analyze required subsystem",
                  x.missing_subsystem_analysis)
    IN  Cap(c6, x.electrical_mismatch, 78,
            "CAP 78%: Electrical checks for mechanical problem without mechanism analysis",
            <<>>)

\* variant: the coverage condition is left out of the gate
can_exceed_95_without_coverage(x) ==
    /\ x.system_analysis_score >= 75
    /\ x.evidence_count >= 5
    /\ x.alignment_score >= 70
    /\ x.has_specific_component
    /\ x.has_causal_reasoning
    /\ x.missing_subsystem_analysis = <<>>
    /\ (~x.is_fault_type \/ x.has_awdp \/ x.has_awdp_ref)
    /\ (x.has_amp_ref \/ x.has_real_dmc \/ x.has_awdp_ref)

can_exceed_95(x) ==
    /\ x.system_analysis_score >= 75
    /\ x.coverage_score >= 85
    /\ x.evidence_count >= 5
    /\ x.alignment_score >= 70
    /\ x.has_specific_component
    /\ x.has_causal_reasoning
    /\ x.missing_subsystem_analysis = <<>>
    /\ (~x.is_fault_type \/ x.has_awdp \/ x.has_awdp_ref)
    /\ (x.has_amp_ref \/ x.has_real_dmc \/ x.has_awdp_ref)

\* if final_score >= 95 and not can_exceed_95: final_score = 94
Gate(st, x) ==
    IF st.score >= 95 * 100 /\ ~can_exceed_95(x)
    THEN [st EXCEPT
            !.score = 94 * 100,
            !.caps = Append(st.caps,
                       [text |-> "CAP 94%: Does not meet ALL strict criteria for SAFE_TO_PROCEED",
                        subsystems |-> <<>>])]
    ELSE st

\* Python round(): to the nearest integer, ties to the even one
Round(h) ==
    LET q == h \div 100
        r == h % 100
    IN  IF r < 50 THEN q
        ELSE IF r > 50 THEN q + 1
        ELSE IF q % 2 = 0 THEN q ELSE q + 1

\* variant: the floor of 40 is forgotten
ClampNoFloor(h) == Min(Round(h), 100)

\* final_score = max(40, min(round(final_score), 100))
Clamp(h) == Max(40, Min(Round(h), 100))

Raised(x) == x.coverage_score = ZeroDivisionError \/ x.alignment_score = ZeroDivisionError

Breakdown(x) ==
    [coverage |-> [score |-> x.coverage_score, weight |-> 25],
     system_analysis |-> [score |-> x.system_analysis_score, weight |-> 25],
     evidence |-> [score |-> x.evidence_score, weight |-> 20, count |-> x.evidence_count],
     query_alignment |-> [score |-> x.alignment_score, weight |-> 20],
     diagram_analysis |-> [score |-> x.diagram_score, weight |-> 10]]

\* variant: the weighted sum is returned without the hard caps and the 95% gate
ReturnedRaw(x) ==
    [raised |-> Raised(x),
     score |-> IF Raised(x) THEN ZeroDivisionError ELSE Clamp(raw_score(x)),
     breakdown |-> Breakdown(x),
     can_exceed_95 |-> ~Raised(x) /\ can_exceed_95(x),
     caps_applied |-> <<>>]

\* the returned dict; raised = TRUE stands for an exception leaving the function
Returned(x) ==
    LET st == Gate(HardCaps(x), x)
    IN  IF Raised(x)
        THEN [raised |-> TRUE, score |-> ZeroDivisionError, breakdown |-> Breakdown(x),
              can_exceed_95 |-> FALSE, caps_applied |-> <<>>]
        ELSE [raised |-> FALSE,
              score |-> Clamp(st.score),
              breakdown |-> Breakdown(x),
              can_exceed_95 |-> can_exceed_95(x),
              caps_applied |-> st.caps]

\* docs = rag_result.get("documents") or rag_result.get("chunks") or []
Docs(rag_result) ==
    IF Get(rag_result, "documents", <<>>) # <<>> THEN rag_result.documents
    ELSE Get(rag_result, "chunks", <<>>)

calculate_certainty_score(rag_result, d, q, f, t, awdp) ==
    Returned(Facts(Docs(rag_result), d, q, f, t, awdp))

\* the local values of the scorer at its return
ScorerLocals(x) ==
    [facts |-> x, raw |-> raw_score(x), capped |-> HardCaps(x).score,
     seen |-> HardCaps(x).seen]

----------------------------------------------------------------------------
(* The diagnosis paths *)

\* task_type = request.task_type or "fault_isolation"
TASK_TYPE_LABELS ==
    {"fault_isolation", "functional_test", "operational_test", "remove_procedure",
     "install_procedure", "system_description", "detailed_inspection", "disassembly",
     "assembly", "adjustment", "bonding_check", "other"}

TaskTypeOf(t) == IF t = "" THEN "fault_isolation" ELSE t

\* the task-type certainty rules of run_three_agent_diagnosis
\* variant: the procedure rule is applied to remove_procedure only
TaskTypeRulesRemoveOnly(score, t, likely_causes, has_procedure_steps) ==
    LET s1 == IF t = "fault_isolation" /\ likely_causes = 0 THEN Min(score, 80) ELSE score
    IN  IF t = "remove_procedure" /\ ~has_procedure_steps THEN Min(s1, 75) ELSE s1

TaskTypeRules(score, t, likely_causes, has_procedure_steps) ==
    LET s1 == IF t = "fault_isolation" /\ likely_causes = 0 THEN Min(score, 80) ELSE score
    IN  IF t \in {"remove_procedure", "install_procedure"} /\ ~has_procedure_steps
        THEN Min(s1, 75) ELSE s1

CertaintyStatus(score) ==
    IF score >= CERTAINTY_THRESHOLD THEN "SAFE_TO_PROCEED" ELSE "REQUIRE_EXPERT"

DiagnoseResponse(score, likely_causes, source) ==
    [status_code |-> 200, certainty_score |-> score,
     certainty_status |-> CertaintyStatus(score),
     likely_causes |-> likely_causes, source |-> source]

\* variant: the status is derived before the task-type rules lower the score
ThreeAgentResponseEarlyStatus(score, t, likely_causes, has_procedure_steps) ==
    [DiagnoseResponse(TaskTypeRules(score, t, likely_causes, has_procedure_steps),
                      likely_causes, "3-Agent System")
        EXCEPT !.certainty_status = CertaintyStatus(score)]

\* the response of run_three_agent_diagnosis: certainty_score after the
\* task-type rules, certainty_status derived from it
ThreeAgentResponse(score, t, likely_causes, has_procedure_steps) ==
    DiagnoseResponse(TaskTypeRules(score, t, likely_causes, has_procedure_steps),
                     likely_causes, "3-Agent System")

\* raise HTTPException(status_code=503, ...)
HTTP503 ==
    [status_code |-> 503, certainty_score |-> 0, certainty_status |-> "",
     likely_causes |-> 0, source |-> ""]

NoResult ==
    [raised |-> FALSE, score |-> 0, breakdown |-> <<>>, can_exceed_95 |-> FALSE,
     caps_applied |-> <<>>]
NoLocals == [called |-> FALSE]
NoResponse ==
    [status_code |-> 0, certainty_score |-> 0, certainty_status |-> "",
     likely_causes |-> 0, source |-> ""]

\* a direct call of calculate_certainty_score
CalculateCertaintyScore ==
    /\ pc = "start" /\ path = "scorer"
    /\ \E x \in {Facts(Docs([documents |-> documents]), diagnosis, query, ata_filter,
                       task_type, has_awdp)} :
          /\ result' = Returned(x)
          /\ locals' = [called |-> TRUE, scorer |-> ScorerLocals(x)]
    /\ pc' = "done"
    /\ UNCHANGED <<inputs, response, calls, rag_vars, rag_query, ingest_vars>>

\* POST /diagnose: the RAG query fails (503) or the diagnosis is scored with
\* the AWDP hint, the task-type rules are applied and the status is derived
RunThreeAgentDiagnosis ==
    /\ pc = "start" /\ path = "three_agent"
    /\ \/ /\ response' = HTTP503
          /\ UNCHANGED <<result, locals>>
       \/ \E likely_causes \in 0..1, has_procedure_steps \in BOOLEAN :
          \E x \in {Facts(Docs([documents |-> documents]), diagnosis, query, ata_filter,
                          TaskTypeOf(task_type), has_awdp)} :
            /\ result' = Returned(x)
            /\ locals' = [called |-> TRUE, scorer |-> ScorerLocals(x),
                          has_procedure_steps |-> has_procedure_steps]
            /\ response' = ThreeAgentResponse(Returned(x).score, TaskTypeOf(task_type),
                                               likely_causes, has_procedure_steps)
    /\ pc' = "done"
    /\ UNCHANGED <<inputs, calls, rag_vars, rag_query, ingest_vars>>

\* the body of run_rag_only_diagnosis
RagOnly ==
    \/ /\ response' = HTTP503
       /\ UNCHANGED <<result, locals>>
    \/ \E likely_causes \in 0..1 :
       \E x \in {Facts(Docs([documents |-> documents]), diagnosis, query, ata_filter,
                       TaskTypeOf(task_type), FALSE)} :
         /\ result' = Returned(x)
         /\ locals' = [called |-> TRUE, scorer |-> ScorerLocals(x)]
         /\ response' = DiagnoseResponse(Returned(x).score, likely_causes, "RAG-Only Mode")

RunRagOnlyDiagnosis ==
    /\ pc = "start" /\ path = "rag_only"
    /\ RagOnly
    /\ pc' = "done"
    /\ UNCHANGED <<inputs, calls, rag_vars, rag_query, ingest_vars>>

\* run_crewai_diagnosis: the crew fails (fallback to the RAG-only path) or its
\* text is scored with an empty document list, the crew result carrying no score
\* variant: the crew's diagnosis is scored with the retrieved documents
RunCrewaiDiagnosisWithDocuments ==
    /\ pc = "start" /\ path = "crewai"
    /\ \/ RagOnly
       \/ \E likely_causes \in 0..1 :
          \E x \in {Facts(Docs([documents |-> documents]), diagnosis, query, ata_filter,
                          TaskTypeOf(task_type), FALSE)} :
            /\ result' = Returned(x)
            /\ locals' = [called |-> TRUE, scorer |-> ScorerLocals(x)]
            /\ response' = DiagnoseResponse(Returned(x).score, likely_causes,
                                            "CrewAI 3-Tier System")
    /\ pc' = "done"
    /\ UNCHANGED <<inputs, calls, rag_vars, rag_query, ingest_vars>>

RunCrewaiDiagnosis ==
    /\ pc = "start" /\ path = "crewai"
    /\ \/ RagOnly
       \/ \E likely_causes \in 0..1 :
          \E x \in {Facts(Docs([documents |-> <<>>]), diagnosis, query, ata_filter,
                          TaskTypeOf(task_type), FALSE)} :
            /\ result' = Returned(x)
            /\ locals' = [called |-> TRUE, scorer |-> ScorerLocals(x)]
            /\ response' = DiagnoseResponse(Returned(x).score, likely_causes,
                                            "CrewAI 3-Tier System")
    /\ pc' = "done"
    /\ UNCHANGED <<inputs, calls, rag_vars, rag_query, ingest_vars>>

----------------------------------------------------------------------------
(* Calls of the scorer by concurrent requests.  The endpoint is a plain
   `def`, which FastAPI runs on a thread pool, so calls of different requests
   interleave.  A call is a record of its arguments, its position and its
   local values; a step of a call reads the record of that call. *)

Args(docs, d, q, f, t, awdp) ==
    [documents |-> docs, diagnosis |-> d, query |-> q, ata_filter |-> f,
     task_type |-> t, has_awdp |-> awdp]

Entered(args) == [args |-> args, pc |-> "entered"]

\* the five sub-scores and the weighted sum (lines 459-884)
CallScored(c) ==
    [args |-> c.args, pc |-> "scored",
     facts |-> Facts(Docs([documents |-> c.args.documents]), c.args.diagnosis, c.args.query,
                     c.args.ata_filter, c.args.task_type, c.args.has_awdp)]

\* caps_applied = [] and the hard caps (lines 897-932)
CallCapped(c) == [args |-> c.args, pc |-> "capped", facts |-> c.facts, st |-> HardCaps(c.facts)]

\* variant: the result is memoised under the query alone, so that a call
\* returns what an earlier call with the same query has returned
CallResultMemo(c, cs) ==
    IF \E j \in DOMAIN cs : cs[j].pc = "returned" /\ cs[j].args.query = c.args.query
    THEN (CHOOSE x \in {cs[j].out : j \in {k \in DOMAIN cs :
                           cs[k].pc = "returned" /\ cs[k].args.query = c.args.query}} : TRUE)
    ELSE Returned(c.facts)

\* the dict returned by call c (lines 938-994); cs, the calls of the process,
\* is not read: the function keeps nothing at module level
CallResult(c, cs) == Returned(c.facts)

ScoreStep(i) ==
    /\ calls[i].pc = "entered"
    /\ calls' = [calls EXCEPT ![i] = CallScored(calls[i])]

CapStep(i) ==
    /\ calls[i].pc = "scored"
    /\ calls' = [calls EXCEPT ![i] = CallCapped(calls[i])]

ReturnStep(i) ==
    /\ calls[i].pc = "capped"
    /\ calls' = [calls EXCEPT ![i] =
                    [args |-> calls[i].args, pc |-> "returned", facts |-> calls[i].facts,
                     st |-> calls[i].st, out |-> CallResult(calls[i], calls)]]

\* one step of one call of calculate_certainty_score
ConcurrentCall ==
    /\ path = "calls"
    /\ \E i \in DOMAIN calls : ScoreStep(i) \/ CapStep(i) \/ ReturnStep(i)
    /\ UNCHANGED <<inputs, pc, result, locals, response, rag_vars, rag_query, ingest_vars>>

----------------------------------------------------------------------------
(* Inputs of the model *)

RECURSIVE Rep(_, _)
Rep(x, n) == IF n = 0 THEN <<>> ELSE <<x>> \o Rep(x, n - 1)

\* a document of chapter ch with the relevance sim (in hundredths) under the given key
Doc(ch, key, sim) ==
    [k \in {"doc_path", "content", key} |->
        IF k = "doc_path" THEN <<"39", "a", ch, "10", "00", "00a">>
        ELSE IF k = "content" THEN {<<"remove", "the", "cover">>}
        ELSE sim]

\* hi relevant documents of chapter 32, lo less relevant ones, off of chapter 24
DocList(key, hi, lo, off) ==
    Rep(Doc("32", key, 90), hi) \o Rep(Doc("32", key, 50), lo) \o Rep(Doc("24", key, 80), off)

ATA32 == <<"A", "T", "A", " ", "3", "2">>

\* quantity expressions: a number followed by a unit of evidence_patterns
QuantityPhrases ==
    <<<<"25", "nm">>, <<"3000", "psi">>, <<"28", "v">>, <<"20", "c">>, <<"5", "ohm">>,
      <<"120", "ma">>, <<"0.5", "mm">>, <<"7", "bar">>, <<"12", "kv">>>>

Quantities(n) == {QuantityPhrases[i] : i \in 1..n}

\* phrases of a diagnosis, one per evidence flag
AnalysisPhrases == {<<"valve">>, <<"because">>, <<"mechanism">>, <<"lh">>, <<"worn">>}
ReferencePhrases ==
    {<<"39-a-32-10-00-00">>, <<"amm", "32-10-00">>, <<"awdp", "32">>,
     <<"3g3240a00131">>, <<"pin", "5">>}
CorePhrases ==
    AnalysisPhrases \cup
    {<<"39-a-32-10-00-00">>, <<"awdp", "32">>, <<"check", "continuity">>, <<"nose", "wheel">>}
AlignmentPhrases ==
    {<<"valve">>, <<"worn">>, <<"mechanism">>, <<"check", "continuity">>, <<"nose", "wheel">>,
     <<"steering">>, <<"oil">>}

Queries ==
    {<<>>, <<"test">>, <<"check", "fault">>, <<"taxi", "valve">>, <<"valve", "worn">>,
     <<"valve", "worn", "noise">>, <<"steering", "valve", "aw139">>,
     <<"valve", "worn", "mechanism", "cover", "test">>}

FullList == DocList("similarity", 3, 7, 0)

\* the start of a call: the inputs are drawn from the given sets
\* no request served yet
NoHttp ==
    [n |-> 0, endpoint |-> "", request |-> [query |-> {}, top_k |-> 0, ata_filter |-> ""],
     status_code |-> 0, status |-> "", index_loaded |-> FALSE, document_count |-> 0,
     success |-> FALSE, documents |-> <<>>]

\* the retrieval service as its module is imported: embeddings_index = [],
\* index_loaded = False, last_reload_time = 0.0
RagImported ==
    /\ embeddings_index = <<>>
    /\ index_loaded = FALSE
    /\ last_reload_time = 0
    /\ started = FALSE
    /\ http = NoHttp

\* a file on disk: absent, unreadable or not a JSON list of documents, or
\* the list it holds
Missing == [state |-> "missing", docs |-> <<>>]
Corrupt == [state |-> "corrupt", docs |-> <<>>]
ListFile(docs) == [state |-> "list", docs |-> docs]

\* no call of query_rag is in flight
NoQuery == [pc |-> "idle", attempt |-> 0, events |-> <<>>, result |-> "none"]

\* CHECKPOINT_FILE is absent; no run of run_ingestion has started
NoCheckpoint == [state |-> "missing", processed_files |-> 0]
NoIngestion == [pc |-> "idle", idx |-> 0, processed |-> 0, saved_so_far |-> 0,
                batch |-> <<>>, succeeded |-> {}, save_failed |-> FALSE, runs |-> 0,
                BATCH_SIZE |-> 50]

IngestIdle ==
    /\ embeddings_json = Missing
    /\ checkpoint_file = NoCheckpoint
    /\ ingestion = NoIngestion

\* the retrieval service, the retry loop and the ingestion are not part of the run
RagIdle ==
    /\ RagImported
    /\ embeddings_file = Missing /\ legacy_file = Missing
    /\ OPENAI_API_KEY = FALSE
    /\ rag_query = NoQuery
    /\ IngestIdle

InitWith(paths, docs, diags, queries, filters, tasks, hints) ==
    /\ path \in paths
    /\ documents \in docs
    /\ diagnosis \in diags
    /\ query \in queries
    /\ ata_filter \in filters
    /\ task_type \in tasks
    /\ has_awdp \in hints
    /\ pc = "start"
    /\ result = NoResult
    /\ locals = NoLocals
    /\ response = NoResponse
    /\ calls = <<>>
    /\ RagIdle

\* direct calls, every combination of the core phrases
InitCore ==
    InitWith({"scorer"}, {<<>>, FullList},
             {ps \cup Quantities(n) : ps \in SUBSET CorePhrases, n \in {0, 5}},
             {<<"taxi", "valve">>, <<"valve", "worn">>, <<"valve", "noise", "because">>},
             {ATA32},
             {"fault_isolation", "remove_procedure", "system_description"}, BOOLEAN)

\* direct calls, every combination of references and quantities
InitEvidence ==
    InitWith({"scorer"}, {<<>>, FullList},
             {base \cup ps \cup Quantities(n) :
                 base \in {{}, AnalysisPhrases}, ps \in SUBSET ReferencePhrases, n \in 0..MaxQty},
             {<<>>, <<"valve", "worn">>}, {ATA32},
             {"fault_isolation", "functional_test", "assembly", "unknown_task"}, BOOLEAN)

\* direct calls, every document list and filter
InitDocuments ==
    InitWith({"scorer"},
             {DocList(key, hi, lo, off) :
                 key \in {"similarity", "score", "similarity_score"},
                 hi \in 0..3, lo \in 0..2, off \in 0..MaxOffDocs},
             {{}, AnalysisPhrases \cup {<<"39-a-32-10-00-00">>, <<"awdp", "32">>} \cup Quantities(5)},
             {<<>>, <<"test">>, <<"valve", "worn">>},
             {<<>>, <<"A", "T", "A", " ">>, ATA32, <<"3", "2">>, <<"2", "4", "-", "1", "0">>,
              <<"X", "Y", "Z">>, PRIMUS_EPIC},
             {"", "fault_isolation", "unknown_task"}, {TRUE})

\* direct calls, every query
InitQueries ==
    InitWith({"scorer"}, {<<>>, FullList},
             {base \cup ps :
                 base \in {{}, {<<"because">>, <<"39-a-32-10-00-00">>, <<"awdp", "32">>}
                                  \cup Quantities(5)},
                 ps \in SUBSET AlignmentPhrases},
             Queries, {ATA32}, {"fault_isolation", "system_description"}, {TRUE})

PathDiagnoses ==
    {base \cup ps \cup Quantities(n) :
        base \in {{}, {<<"mechanism">>, <<"lh">>, <<"worn">>}},
        ps \in SUBSET {<<"valve">>, <<"because">>, <<"39-a-32-10-00-00">>, <<"awdp", "32">>},
        n \in {0, 5}}

\* requests on the diagnosis paths, the documents being those of the RAG API
InitPaths ==
    \/ InitWith({"three_agent"}, {<<>>, DocList("similarity_score", 3, TopK - 3, 0)},
                PathDiagnoses, {<<"valve", "worn">>}, {ATA32},
                {"", "fault_isolation", "operational_test", "remove_procedure",
                 "install_procedure", "disassembly", "system_description"}, BOOLEAN)
    \/ InitWith({"crewai", "rag_only"}, {<<>>, DocList("similarity_score", 3, TopK - 3, 0)},
                PathDiagnoses, {<<"valve", "worn">>}, {ATA32},
                {"", "fault_isolation", "system_description"}, {FALSE})

Init == InitPaths \/ InitQueries \/ InitDocuments \/ InitEvidence \/ InitCore

Next ==
    \/ CalculateCertaintyScore
    \/ RunThreeAgentDiagnosis
    \/ RunRagOnlyDiagnosis
    \/ RunCrewaiDiagnosis

Spec == Init /\ [][Next]_vars

\* the arguments of concurrent calls
CallArgs ==
    {Args(DocList("similarity", 3, 0, 0), {}, <<"valve", "worn">>, ATA32, "fault_isolation", TRUE),
     Args(DocList("similarity", 3, 0, 0), {}, <<"taxi", "valve">>, ATA32, "fault_isolation", TRUE),
     Args(DocList("similarity", 3, 0, 0),
          AnalysisPhrases \cup {<<"39-a-32-10-00-00">>, <<"awdp", "32">>} \cup Quantities(5),
          <<"valve", "worn">>, ATA32, "fault_isolation", TRUE)}

\* MaxCalls requests have entered the scorer
InitCalls ==
    /\ path = "calls" /\ pc = "start"
    /\ documents = <<>> /\ diagnosis = {} /\ query = <<>> /\ ata_filter = <<>>
    /\ task_type = "" /\ has_awdp = FALSE
    /\ result = NoResult /\ locals = NoLocals /\ response = NoResponse
    /\ calls \in [1..MaxCalls -> {Entered(a) : a \in CallArgs}]
    /\ RagIdle

NextCalls == ConcurrentCall

SpecCalls == InitCalls /\ [][NextCalls]_vars

(***************************************************************************)
(* The retrieval service, src/rag_api.py.  A stored document is a record   *)
(* of its path, the phrases of its text and sim, the adjusted similarity   *)
(* (cosine similarity plus keyword boost, in hundredths) it gets for the   *)
(* query of the run.  A file on disk is "missing", "corrupt" (unreadable   *)
(* or not a JSON list of documents) or the list it holds.                  *)
(***************************************************************************)

\* document i of the corpus: similarities 90, 60, 30, 0, ...; every third
\* document is a wiring diagram, every second one is about avionics
Entry(i) ==
    [doc_path |-> <<"39", "a", IF i % 2 = 1 THEN "32" ELSE "24", "10", "00",
                    <<"01", "02", "03", "04", "05", "06">>[i]>>,
     text |-> (IF i % 3 = 0 THEN {<<"wiring", "diagram">>} ELSE {})
              \cup (IF i % 2 = 0 THEN {<<"avionics">>} ELSE {<<"remove", "the", "cover">>}),
     sim |-> 120 - 30 * i]

Corpus(n) == [i \in 1..n |-> Entry(i)]

FileContents == {Missing, Corrupt} \cup {ListFile(Corpus(n)) : n \in 0..MaxDocs}

\* file_path = EMBEDDINGS_FILE if EMBEDDINGS_FILE.exists() else LEGACY_EMBEDDINGS_FILE
file_path == IF embeddings_file # Missing THEN embeddings_file ELSE legacy_file

\* variant: a failed read clears index_loaded and keeps the old index
load_embeddings_index_keeping_index ==
    IF file_path.state = "missing"
    THEN [embeddings_index |-> embeddings_index, index_loaded |-> index_loaded,
          last_reload_time |-> last_reload_time, returned |-> FALSE]
    ELSE IF file_path.state = "corrupt"
    THEN [embeddings_index |-> embeddings_index, index_loaded |-> FALSE,
          last_reload_time |-> last_reload_time, returned |-> FALSE]
    ELSE [embeddings_index |-> file_path.docs, index_loaded |-> TRUE,
          last_reload_time |-> 1, returned |-> TRUE]

\* load_embeddings_index: the new globals and the value returned
load_embeddings_index ==
    IF file_path.state = "missing"
    THEN [embeddings_index |-> embeddings_index, index_loaded |-> index_loaded,
          last_reload_time |-> last_reload_time, returned |-> FALSE]
    ELSE IF file_path.state = "corrupt"
    THEN [embeddings_index |-> <<>>, index_loaded |-> FALSE,
          last_reload_time |-> last_reload_time, returned |-> FALSE]
    ELSE [embeddings_index |-> file_path.docs, index_loaded |-> TRUE,
          last_reload_time |-> 1, returned |-> TRUE]

Load(x) ==
    /\ embeddings_index' = x.embeddings_index
    /\ index_loaded' = x.index_loaded
    /\ last_reload_time' = x.last_reload_time

\* @app.on_event("startup")
StartupEvent ==
    /\ ~started
    /\ started' = TRUE
    /\ Load(load_embeddings_index)
    /\ UNCHANGED <<embeddings_file, legacy_file, OPENAI_API_KEY, http, crew_vars, rag_query, ingest_vars>>

Served(endpoint, request) ==
    [NoHttp EXCEPT !.n = http.n + 1, !.endpoint = endpoint, !.request = request]

\* GET /health
HealthCheck ==
    /\ started /\ http.n < MaxRequests
    /\ http' = [Served("/health", NoHttp.request) EXCEPT
                  !.status_code = 200,
                  !.status = IF index_loaded THEN "healthy" ELSE "degraded",
                  !.index_loaded = index_loaded,
                  !.document_count = Len(embeddings_index)]
    /\ UNCHANGED <<embeddings_file, legacy_file, embeddings_index, index_loaded,
                   last_reload_time, OPENAI_API_KEY, started, crew_vars, rag_query, ingest_vars>>

\* POST /reload-index
ReloadIndex ==
    /\ started /\ http.n < MaxRequests
    /\ \E x \in {load_embeddings_index} :
          /\ Load(x)
          /\ http' = [Served("/reload-index", NoHttp.request) EXCEPT
                        !.status_code = 200,
                        !.success = x.returned,
                        !.document_count =
                            IF x.returned THEN Len(x.embeddings_index) ELSE 0]
    /\ UNCHANGED <<embeddings_file, legacy_file, OPENAI_API_KEY, started, crew_vars, rag_query, ingest_vars>>

TrainingKeywords ==
    [PRIMUS_EPIC |-> {<<"primus">>, <<"epic">>, <<"avionics">>, <<"mfd">>, <<"pfd">>,
                      <<"display", "unit">>, <<"cockpit", "display">>}]

\* filter_documents_by_training_material, for the filters "", a training
\* material and a two-digit ATA code
filter_documents_by_training_material(docs, f) ==
    IF f = "" THEN docs
    ELSE IF f \in DOMAIN TrainingKeywords
    THEN LET filtered == SelectSeq(docs, LAMBDA doc :
                            \/ Occurs(TrainingKeywords[f], Grams(doc.text))
                            \/ Occurs(TrainingKeywords[f], Grams({doc.doc_path})))
         IN  IF filtered # <<>> THEN filtered ELSE SubSeq(docs, 1, Min(10, Len(docs)))
    ELSE LET filtered == SelectSeq(docs, LAMBDA doc :
                            \E i \in 2..(Len(doc.doc_path) - 1) : doc.doc_path[i] = f)
         IN  IF filtered # <<>> THEN filtered ELSE docs

\* similarities.sort(reverse=True, key=lambda x: x[0]): a stable sort
RECURSIVE SortBySimilarity(_)
SortBySimilarity(docs) ==
    IF docs = <<>> THEN <<>>
    ELSE LET i == CHOOSE i \in DOMAIN docs :
                     /\ \A j \in DOMAIN docs : docs[j].sim <= docs[i].sim
                     /\ \A j \in 1..(i - 1) : docs[j].sim < docs[i].sim
         IN  <<docs[i]>> \o SortBySimilarity(SubSeq(docs, 1, i - 1)
                                                \o SubSeq(docs, i + 1, Len(docs)))

is_awdp_doc(doc) ==
    \/ Occurs({<<"39", "a", "awdp">>}, Grams({doc.doc_path}))
    \/ Occurs({<<"39-a-awdp">>, <<"wiring", "diagram">>}, Grams(doc.text))

\* needs_awdp = any(w in query_lower for w in [...])
needs_awdp(q) ==
    Occurs({<<"generator">>, <<"starter">>, <<"electrical">>, <<"wiring">>,
            <<"connector">>}, Grams(q))

\* top_docs of /query: the first top_k of the sorted documents with a
\* positive similarity, plus the best AWDP document when the query needs one
\* and none is among them
TopDocs(index, request) ==
    LET similarities ==
            SortBySimilarity(filter_documents_by_training_material(index,
                                                                   request.ata_filter))
        cut == SubSeq(similarities, 1, Min(request.top_k, Len(similarities)))
        top_docs == SelectSeq(cut, LAMBDA doc : doc.sim > 0)
        awdp_candidates == SelectSeq(similarities, is_awdp_doc)
    IN  IF /\ needs_awdp(request.query)
           /\ \A i \in DOMAIN top_docs : ~is_awdp_doc(top_docs[i])
           /\ awdp_candidates # <<>>
        THEN Append(top_docs, awdp_candidates[1])
        ELSE top_docs

\* DocumentMatch(doc_path=..., similarity_score=round(sim, 4), ...)
DocumentMatch(doc) == [doc_path |-> doc.doc_path, similarity_score |-> doc.sim]

Requests ==
    [query : {{<<"valve", "worn">>}, {<<"generator", "fault">>}},
     top_k : 1..MaxTopK,
     ata_filter : {"", "32", "PRIMUS_EPIC"}]

\* POST /query
QueryRag ==
    /\ started /\ http.n < MaxRequests
    /\ \E request \in Requests, embedded \in BOOLEAN :
          http' =
            IF ~index_loaded
            THEN [Served("/query", request) EXCEPT !.status_code = 503]
            ELSE IF ~OPENAI_API_KEY \/ ~embedded
            THEN [Served("/query", request) EXCEPT !.status_code = 500]
            ELSE [Served("/query", request) EXCEPT
                    !.status_code = 200,
                    !.documents =
                        LET top_docs == TopDocs(embeddings_index, request)
                        IN  [i \in DOMAIN top_docs |-> DocumentMatch(top_docs[i])]]
    /\ UNCHANGED <<embeddings_file, legacy_file, embeddings_index, index_loaded,
                   last_reload_time, OPENAI_API_KEY, started, crew_vars, rag_query, ingest_vars>>

\* the files on disk change (ingestion, deployment, damage)
FilesChange ==
    /\ embeddings_file' \in FileContents
    /\ legacy_file' \in {Missing, ListFile(Corpus(1))}
    /\ UNCHANGED <<embeddings_index, index_loaded, last_reload_time, OPENAI_API_KEY,
                   started, http, crew_vars, rag_query, ingest_vars>>

InitRag ==
    /\ RagImported
    /\ embeddings_file \in FileContents
    /\ legacy_file \in {Missing, ListFile(Corpus(1))}
    /\ OPENAI_API_KEY \in BOOLEAN
    /\ path = "rag_api" /\ pc = "start"
    /\ documents = <<>> /\ diagnosis = {} /\ query = <<>> /\ ata_filter = <<>>
    /\ task_type = "" /\ has_awdp = FALSE
    /\ result = NoResult /\ locals = NoLocals /\ response = NoResponse
    /\ calls = <<>>
    /\ rag_query = NoQuery
    /\ IngestIdle

NextRag ==
    \/ StartupEvent
    \/ HealthCheck
    \/ ReloadIndex
    \/ QueryRag
    \/ FilesChange

SpecRag == InitRag /\ [][NextRag]_vars

(***************************************************************************)
(* The retry loop of crew_server.query_rag, as run_three_agent_diagnosis   *)
(* calls it.  rag_query.attempt is the loop variable, rag_query.events the *)
(* POST requests and the sleeps made so far, in order.                     *)
(***************************************************************************)

\* the default of the parameter, which every caller of query_rag uses
max_retries == 3
backoff_times == <<1, 2, 4>>

Posted == [op |-> "post", t |-> 0]
Slept(t) == [op |-> "sleep", t |-> t]

\* variant: the loop sleeps after every failed attempt
ShouldSleepAlways(attempt, retries) == attempt < retries

\* `if attempt < max_retries - 1` of the except branch
ShouldSleep(attempt, retries) == attempt < retries - 1

\* run_three_agent_diagnosis reaches its call of query_rag
CallQueryRag ==
    /\ pc = "start" /\ path = "three_agent" /\ rag_query.pc = "idle"
    /\ rag_query' = [NoQuery EXCEPT !.pc = "loop"]
    /\ UNCHANGED <<crew_vars, rag_vars, ingest_vars>>

\* one iteration of `for attempt in range(max_retries)`: the POST answers and
\* its data are returned, or it fails (connection error, timeout, HTTP error
\* status, a body that is no JSON object) and the loop sleeps before the next
\* attempt; backoff_times[attempt] outside the list raises IndexError
QueryRagAttempt ==
    /\ rag_query.pc = "loop" /\ rag_query.attempt < max_retries
    /\ \E ok \in BOOLEAN :
         LET attempt == rag_query.attempt
             posted == Append(rag_query.events, Posted)
         IN  rag_query' =
               IF ok
               THEN [pc |-> "returned", attempt |-> attempt, events |-> posted,
                     result |-> "data"]
               ELSE IF ~ShouldSleep(attempt, max_retries)
               THEN [pc |-> "loop", attempt |-> attempt + 1, events |-> posted,
                     result |-> "none"]
               ELSE IF attempt + 1 \in DOMAIN backoff_times
               THEN [pc |-> "loop", attempt |-> attempt + 1,
                     events |-> Append(posted, Slept(backoff_times[attempt + 1])),
                     result |-> "none"]
               ELSE [pc |-> "returned", attempt |-> attempt, events |-> posted,
                     result |-> "raised"]
    /\ UNCHANGED <<crew_vars, rag_vars, ingest_vars>>

\* the loop is over: `return {"error": ...}`
QueryRagGiveUp ==
    /\ rag_query.pc = "loop" /\ rag_query.attempt >= max_retries
    /\ rag_query' = [rag_query EXCEPT !.pc = "returned", !.result = "error"]
    /\ UNCHANGED <<crew_vars, rag_vars, ingest_vars>>

\* run_three_agent_diagnosis after the call: an exception or an "error" key
\* ends the request with HTTP 503, else the diagnosis is formatted and scored
RunThreeAgentDiagnosisAfterQuery ==
    /\ pc = "start" /\ path = "three_agent" /\ rag_query.pc = "returned"
    /\ IF rag_query.result \in {"error", "raised"}
       THEN /\ response' = HTTP503
            /\ UNCHANGED <<result, locals>>
       ELSE \E likely_causes \in 0..1, has_procedure_steps \in BOOLEAN :
            \E x \in {Facts(Docs([documents |-> documents]), diagnosis, query, ata_filter,
                            TaskTypeOf(task_type), has_awdp)} :
              /\ result' = Returned(x)
              /\ locals' = [called |-> TRUE, scorer |-> ScorerLocals(x),
                            has_procedure_steps |-> has_procedure_steps]
              /\ response' = ThreeAgentResponse(Returned(x).score, TaskTypeOf(task_type),
                                                 likely_causes, has_procedure_steps)
    /\ pc' = "done"
    /\ UNCHANGED <<inputs, calls, rag_vars, rag_query, ingest_vars>>

\* requests of the three-agent path, documents being what the RAG API answers
\* when a POST succeeds
InitRetry ==
    InitWith({"three_agent"}, {<<>>, DocList("similarity_score", 3, TopK - 3, 0)},
             PathDiagnoses, {<<"valve", "worn">>}, {ATA32},
             {"", "fault_isolation"}, {FALSE})

NextRetry ==
    \/ CallQueryRag
    \/ QueryRagAttempt
    \/ QueryRagGiveUp
    \/ RunThreeAgentDiagnosisAfterQuery

SpecRetry == InitRetry /\ [][NextRetry]_vars

(***************************************************************************)
(* The ingestion pipeline, src/ingest_data.py.  Input files are numbered   *)
(* 1..MaxFiles in the order of all_files; the entry stored for a file is   *)
(* the record of its doc_path.  ingestion holds the locals of the run:     *)
(* idx is the 0-based loop index, succeeded the files of this run whose    *)
(* process_document returned an embedding, save_failed whether             *)
(* append_embeddings returned False in this run.                           *)
(***************************************************************************)

all_files == [i \in 1..MaxFiles |-> i]
total_docs == Len(all_files)
Embedded(file) == [doc_path |-> file]

\* the list a file holds, as the next reader gets it
Entries(file) == IF file.state = "list" THEN file.docs ELSE <<>>

\* load_checkpoint: a missing or undecodable checkpoint counts from zero
load_checkpoint == IF checkpoint_file.state = "ok" THEN checkpoint_file.processed_files ELSE 0

\* save_checkpoint
Checkpoint(processed_files) == [state |-> "ok", processed_files |-> processed_files]

\* which file operations of one call of append_embeddings succeed: creating the
\* missing file, reading the existing one, renaming it to .bak, and writing,
\* verifying and moving the temporary file
IoOutcomes == [create : BOOLEAN, read : BOOLEAN, rename : BOOLEAN, write : BOOLEAN]

\* append_embeddings: the file after the call and the value returned
append_embeddings(file, embeddings_list, io) ==
    IF embeddings_list = <<>> THEN [file |-> file, returned |-> TRUE]
    ELSE IF file.state = "missing" /\ ~io.create THEN [file |-> file, returned |-> FALSE]
    ELSE LET present == IF file.state = "missing" THEN ListFile(<<>>) ELSE file
             readable == present.state = "list" /\ io.read
             existing == IF readable THEN present.docs ELSE <<>>
             kept == IF readable \/ ~io.rename THEN present ELSE Missing
         IN  IF io.write
             THEN [file |-> ListFile(existing \o embeddings_list), returned |-> TRUE]
             ELSE [file |-> kept, returned |-> FALSE]

\* run_ingestion up to its loop
StartRun ==
    /\ ingestion.pc \in {"idle", "done"} /\ ingestion.runs < MaxRuns
    /\ ingestion' = [NoIngestion EXCEPT !.pc = "loop",
                                        !.processed = load_checkpoint,
                                        !.saved_so_far = load_checkpoint,
                                        !.runs = ingestion.runs + 1,
                                        !.BATCH_SIZE = ingestion.BATCH_SIZE]
    /\ UNCHANGED <<embeddings_json, checkpoint_file, crew_vars, rag_vars, rag_query>>

\* one iteration of the loop up to the flush test: the file is skipped by the
\* offset, or process_document fails (continue), or its result joins the batch
ProcessFile ==
    /\ ingestion.pc = "loop" /\ ingestion.idx < total_docs
    /\ LET idx == ingestion.idx
           file == all_files[idx + 1]
           next == [ingestion EXCEPT !.idx = idx + 1]
       IN  IF idx < ingestion.processed
           THEN ingestion' = next
           ELSE \E ok \in BOOLEAN :
                  IF ~ok
                  THEN ingestion' = next
                  ELSE LET batch == Append(ingestion.batch, Embedded(file))
                           got == [ingestion EXCEPT !.batch = batch,
                                                    !.succeeded = @ \cup {file}]
                       IN  ingestion' =
                             IF Len(batch) >= ingestion.BATCH_SIZE \/ idx = total_docs - 1
                             THEN [got EXCEPT !.pc = "flush"]
                             ELSE [got EXCEPT !.idx = idx + 1]
    /\ UNCHANGED <<embeddings_json, checkpoint_file, crew_vars, rag_vars, rag_query>>

\* the flush: append_embeddings(batch) returns True, or False and the loop breaks
FlushBatch ==
    /\ ingestion.pc = "flush"
    /\ \E io \in IoOutcomes :
         LET r == append_embeddings(embeddings_json, ingestion.batch, io)
         IN  /\ embeddings_json' = r.file
             /\ ingestion' = IF r.returned
                             THEN [ingestion EXCEPT !.pc = "saved"]
                             ELSE [ingestion EXCEPT !.pc = "after_loop",
                                                    !.save_failed = TRUE]
    /\ UNCHANGED <<checkpoint_file, crew_vars, rag_vars, rag_query>>

\* after a saved batch: the count and the checkpoint are advanced
SaveCheckpoint ==
    /\ ingestion.pc = "saved"
    /\ LET saved_so_far == ingestion.saved_so_far + Len(ingestion.batch)
       IN  /\ checkpoint_file' = Checkpoint(saved_so_far)
           /\ ingestion' = [ingestion EXCEPT !.pc = "loop",
                                             !.saved_so_far = saved_so_far,
                                             !.batch = <<>>,
                                             !.idx = @ + 1]
    /\ UNCHANGED <<embeddings_json, crew_vars, rag_vars, rag_query>>

\* after the loop: the checkpoint is written with saved_so_far
FinishRun ==
    /\ \/ ingestion.pc = "loop" /\ ingestion.idx >= total_docs
       \/ ingestion.pc = "after_loop"
    /\ checkpoint_file' = Checkpoint(ingestion.saved_so_far)
    /\ ingestion' = [ingestion EXCEPT !.pc = "done"]
    /\ UNCHANGED <<embeddings_json, crew_vars, rag_vars, rag_query>>

\* the process is killed between two steps: its locals are lost, the files stay
Interrupt ==
    /\ ingestion.pc \in {"loop", "flush", "saved", "after_loop"}
    /\ ingestion' = [NoIngestion EXCEPT !.runs = ingestion.runs,
                                        !.BATCH_SIZE = ingestion.BATCH_SIZE]
    /\ UNCHANGED <<embeddings_json, checkpoint_file, crew_vars, rag_vars, rag_query>>

\* no run has started; BATCH_SIZE is the default or a setting of the environment
InitIngest ==
    /\ embeddings_json \in {Missing, Corrupt}
    /\ checkpoint_file = NoCheckpoint
    /\ ingestion \in {[NoIngestion EXCEPT !.BATCH_SIZE = b] :
                        b \in {NoIngestion.BATCH_SIZE} \cup 1..MaxBatchSize}
    /\ path = "ingest" /\ pc = "start"
    /\ documents = <<>> /\ diagnosis = {} /\ query = <<>> /\ ata_filter = <<>>
    /\ task_type = "" /\ has_awdp = FALSE
    /\ result = NoResult /\ locals = NoLocals /\ response = NoResponse
    /\ calls = <<>>
    /\ RagImported
    /\ embeddings_file = Missing /\ legacy_file = Missing
    /\ OPENAI_API_KEY = FALSE
    /\ rag_query = NoQuery

NextIngest ==
    \/ StartRun
    \/ ProcessFile
    \/ FlushBatch
    \/ SaveCheckpoint
    \/ FinishRun
    \/ Interrupt

SpecIngest == InitIngest /\ [][NextIngest]_vars

----------------------------------------------------------------------------
(* Properties *)

Called == locals.called
Answered == pc = "done" /\ response.status_code = 200

\* C1: for every input of calculate_certainty_score the returned score is an
\* integer with 40 <= score <= 100
C1_ScoreRange == Called => result.score \in 40..100

\* the floor acts: the weighted sum is below 40 and 40 is returned
C1_Witness == Called /\ locals.scorer.raw < 40 * 100 /\ result.score = 40

\* C2: whenever the returned can_exceed_95 is false the returned score, which
\* is rounded after the gate, is at most 94
C2_GateCeiling == Called /\ ~result.can_exceed_95 => result.score <= 94

\* the weighted sum is 95 or more while a gate condition fails
C2_Witness ==
    Called /\ ~result.can_exceed_95 /\ locals.scorer.raw >= 95 * 100 /\ result.score <= 94

\* C3: on every diagnosis path the response's certainty_status is
\* SAFE_TO_PROCEED exactly when its certainty_score is at least 95, and
\* REQUIRE_EXPERT otherwise; on the three-agent path the certainty_score is
\* the scorer's score after the task-type rules
C3_StatusFromScore ==
    Answered =>
        /\ response.certainty_status =
              (IF response.certainty_score >= 95 THEN "SAFE_TO_PROCEED" ELSE "REQUIRE_EXPERT")
        /\ path = "three_agent" =>
              response.certainty_score =
                  TaskTypeRules(result.score, TaskTypeOf(task_type), response.likely_causes,
                                locals.has_procedure_steps)
        /\ path \in {"crewai", "rag_only"} => response.certainty_score = result.score

\* the scorer returns 95 or more on the three-agent path and a task-type rule
\* lowers the score of the response below 95
C3_Witness ==
    /\ Answered /\ path = "three_agent"
    /\ result.score >= 95 /\ response.certainty_score < 95
    /\ response.certainty_status = "REQUIRE_EXPERT"

\* C4: whenever the condition of a global hard cap holds the returned score is
\* at most its threshold (generic diagnosis 80, no DMC/AMP/AWDP reference 85,
\* no specific component and no real part number 82, fault-type task without
\* causal reasoning 80, electrical checks for a mechanical symptom 78), and
\* the caps never raise the score above the raw weighted sum
C4_HardCaps ==
    Called =>
        LET x == locals.scorer.facts
        IN  /\ x.is_generic_diagnosis => result.score <= 80
            /\ ~x.has_amp_ref /\ ~x.has_real_dmc /\ ~x.has_awdp_ref => result.score <= 85
            /\ ~x.has_specific_component /\ ~x.has_real_part_number => result.score <= 82
            /\ x.is_fault_type /\ ~x.has_causal_reasoning => result.score <= 80
            /\ x.electrical_mismatch => result.score <= 78
            /\ locals.scorer.capped <= locals.scorer.raw
            /\ \A i \in 1..Len(locals.scorer.seen) : locals.scorer.seen[i] <= locals.scorer.raw
            /\ result.score * 100 <= Max(40 * 100, locals.scorer.raw + 50)

\* the mismatch cap lowers a weighted sum above 78 to 78
C4_Witness ==
    /\ Called /\ locals.scorer.facts.electrical_mismatch
    /\ locals.scorer.seen[7] > 78 * 100 /\ result.score = 78

\* C5: for a fault-type task (fault_isolation, operational_test,
\* functional_test) with the has_awdp hint false and no AWDP reference in the
\* diagnosis the returned score is at most 85, and the 95% gate adds no entry
C5_NoAwdpCap ==
    Called /\ locals.scorer.facts.task_type \in {"fault_isolation", "operational_test", "functional_test"}
           /\ ~locals.scorer.facts.has_awdp /\ ~locals.scorer.facts.has_awdp_ref =>
        /\ result.score <= 85
        /\ \A i \in 1..Len(result.caps_applied) :
              result.caps_applied[i].text #
                  "CAP 94%: Does not meet ALL strict criteria for SAFE_TO_PROCEED"

\* the cap of 85 lowers a weighted sum above 85
C5_Witness ==
    /\ Called /\ locals.scorer.facts.task_type = "functional_test"
    /\ ~locals.scorer.facts.has_awdp /\ ~locals.scorer.facts.has_awdp_ref
    /\ locals.scorer.raw > 85 * 100 /\ result.score = 85

\* a subsystem of the table has a trigger in the query and none of its
\* required keywords in the diagnosis
Unanswered(k) ==
    /\ Occurs(subsystem_map[k].triggers, Grams({query}))
    /\ ~Occurs(subsystem_map[k].required, Grams(diagnosis))

\* C6: if the query contains a trigger of a subsystem and the diagnosis none
\* of its required keywords, query_alignment.score <= 25 and score <= 75
C6_SubsystemGating ==
    Called /\ (\E k \in 1..Len(subsystem_map) : Unanswered(k)) =>
        /\ result.breakdown.query_alignment.score <= 25
        /\ result.score <= 75

\* 'taxi' in the query, no steering keyword in the diagnosis, and the cap of
\* 75 lowers the score
C6_Witness ==
    /\ Called /\ Unanswered(1) /\ "taxi" \in {query[i] : i \in 1..Len(query)}
    /\ locals.scorer.seen[6] > 75 * 100
    /\ result.breakdown.query_alignment.score = 25 /\ result.score = 75

SubsystemCap == "CAP 75%: Diagnosis does not analyze required subsystem"

\* caps_applied has the 'CAP 75' entry and the entry names subsystem k
Recorded(k) ==
    \E i \in 1..Len(result.caps_applied) :
        /\ result.caps_applied[i].text = SubsystemCap
        /\ \E j \in 1..Len(result.caps_applied[i].subsystems) :
              result.caps_applied[i].subsystems[j] = subsystem_map[k].label

\* C7 as stated: whenever a subsystem is flagged missing, caps_applied
\* contains the 'CAP 75' entry naming it, whatever the other inputs are
C7_AlwaysRecorded ==
    Called => \A k \in 1..Len(subsystem_map) : Unanswered(k) => Recorded(k)

\* C7 amended: a subsystem flagged missing is named by the 'CAP 75' entry of
\* caps_applied exactly when the score reaching that cap is above 75
C7_RecordedWhenLowered ==
    Called =>
        \A k \in 1..Len(subsystem_map) :
            Unanswered(k) => (Recorded(k) <=> locals.scorer.seen[6] > 75 * 100)

\* two subsystems are missing and the cap of 75 lowers the score
C7_Witness ==
    /\ Called /\ Unanswered(1) /\ Unanswered(4)
    /\ locals.scorer.seen[6] > 75 * 100 /\ Recorded(1) /\ Recorded(4)

\* the scenario of the happy path
HappyPath ==
    /\ Called /\ path = "scorer" /\ task_type = "fault_isolation"
    /\ locals.scorer.facts.has_specific_component
    /\ locals.scorer.facts.has_causal_reasoning
    /\ locals.scorer.facts.has_real_dmc
    /\ locals.scorer.facts.has_awdp_ref
    /\ locals.scorer.facts.flags.quantity_matches = 5
    /\ locals.scorer.facts.flags.query_keywords > 0
    /\ 10 * locals.scorer.facts.flags.matched_keywords
          >= 6 * locals.scorer.facts.flags.query_keywords
    /\ locals.scorer.facts.missing_subsystem_analysis = <<>>
    /\ Len(documents) = 10
    /\ Cardinality(matching_docs(documents, ata_filter)) = 10
    /\ Cardinality(high_relevance_docs(documents, ata_filter)) >= 3

\* the number of the flags the scenario does not mention that are true
Unmentioned ==
    LET e == locals.scorer.facts.flags
    IN    (IF e.has_mechanism_explanation THEN 1 ELSE 0)
        + (IF e.has_specific_location THEN 1 ELSE 0)
        + (IF e.has_failure_mode THEN 1 ELSE 0)

NoFlags ==
    LET e == locals.scorer.facts.flags
    IN  /\ ~e.has_specific_component /\ ~e.has_causal_reasoning
        /\ ~e.has_mechanism_explanation /\ ~e.has_specific_location /\ ~e.has_failure_mode
        /\ ~e.has_real_dmc /\ ~e.has_amp_ref /\ ~e.has_awdp_ref
        /\ ~e.has_real_part_number /\ ~e.has_connector_pin
        /\ e.quantity_matches = 0
        /\ result.breakdown.evidence.count = 0

Percent == 0..100

\* C10: the scorer is total: for empty strings, an empty document list, an
\* unknown task_type and an unknown ata_filter it returns a valid result
\* (score, breakdown, caps_applied, can_exceed_95) and never ends in an error
C10_Total ==
    Called =>
        /\ ~result.raised
        /\ result.score \in 40..100
        /\ result.can_exceed_95 \in BOOLEAN
        /\ result.breakdown.coverage.score \in Percent
        /\ result.breakdown.system_analysis.score \in Percent
        /\ result.breakdown.evidence.score \in Percent
        /\ result.breakdown.query_alignment.score \in Percent
        /\ result.breakdown.diagram_analysis.score \in Percent
        /\ result.breakdown.evidence.count \in Nat

\* every input is degenerate at once
C10_Witness ==
    /\ Called /\ path = "scorer"
    /\ documents = <<>> /\ diagnosis = {} /\ query = <<>>
    /\ task_type = "unknown_task" /\ ata_filter = <<"X", "Y", "Z">>
    /\ ~result.raised /\ result.score = 40

GateFailsAt95 == Called /\ locals.scorer.raw >= 95 * 100 /\ ~result.can_exceed_95

\* C12 as stated: whenever the weighted sum before the caps is 95 or more
\* and can_exceed_95 is false, the returned score is exactly 94
C12_Exactly94 == GateFailsAt95 => result.score = 94

\* C12 amended: whenever the weighted sum before the caps is 95 or more and
\* can_exceed_95 is false, the failing condition is the missing manual
\* reference, the cap of 85 for it has lowered the score before the gate is
\* evaluated, the gate adds no entry and the returned score is 85
C12_CappedBeforeGate ==
    GateFailsAt95 =>
        /\ ~locals.scorer.facts.has_amp_ref /\ ~locals.scorer.facts.has_real_dmc
        /\ ~locals.scorer.facts.has_awdp_ref
        /\ locals.scorer.capped = 85 * 100
        /\ result.caps_applied =
              <<[text |-> "CAP 85%: No specific manual references (DMC/AMP/AWDP)",
                 subsystems |-> <<>>]>>
        /\ result.score = 85

\* a weighted sum of 97 without a manual reference
C12_Witness == GateFailsAt95 /\ locals.scorer.raw = 97 * 100 /\ result.score = 85

\* a direct call of the scorer with a task type outside the fixed set
UnknownTaskType == Called /\ path = "scorer" /\ task_type \notin TASK_TYPE_LABELS \cup {""}

\* C13: for every other input, the score, breakdown and caps returned for a
\* task type outside the fixed set equal those returned for fault_isolation
C13_UnknownAsFaultIsolation ==
    UnknownTaskType =>
        result = calculate_certainty_score([documents |-> documents], diagnosis, query,
                                           ata_filter, "fault_isolation", has_awdp)

\* an unknown task type scored above 85 where fault_isolation is capped at 85
C13_Witness ==
    /\ UnknownTaskType /\ ~has_awdp
    /\ result.score > 85
    /\ calculate_certainty_score([documents |-> documents], diagnosis, query,
                                 ata_filter, "fault_isolation", has_awdp).score = 85

\* a direct call with at least one retrieved document and a filter that is
\* not a training-material identifier
ChapterFilter ==
    /\ Called /\ path = "scorer" /\ documents # <<>>
    /\ ata_filter \notin {PRIMUS_EPIC, PT6C_67CD, AW139_AIRFRAME}

\* the filter is empty, or empty once "ATA " and blanks are removed
EmptyFilter == ata_filter \in {<<>>, <<"A", "T", "A", " ">>}

\* the filter names a chapter: its code starts with two digits
RecognisedChapter ==
    /\ Len(AtaCode(ata_filter)) >= 2
    /\ \A i \in 1..2 :
          AtaCode(ata_filter)[i] \in {"0", "1", "2", "3", "4", "5", "6", "7", "8", "9"}

\* C14 as stated: a filter that is neither a training-material identifier
\* nor a recognised chapter code applies no narrowing, every retrieved
\* document counts as matching and the ratio is 100%
C14_UnknownFilterMatchesAll ==
    (ChapterFilter /\ ~RecognisedChapter) => result.breakdown.coverage.score >= 85

\* C14 amended: only an empty filter (or one that is empty after removing
\* "ATA " and blanks) applies no narrowing, with ratio 100% and coverage 85
\* or 100; a filter that is not empty and names no chapter, such as "XYZ",
\* matches no document, the ratio is 0 and the coverage sub-score is 15
C14_OnlyEmptyFilter ==
    ChapterFilter =>
        /\ EmptyFilter => result.breakdown.coverage.score >= 85
        /\ (~EmptyFilter /\ ~RecognisedChapter) => result.breakdown.coverage.score = 15

\* the filter "XYZ" with three highly relevant documents of chapter 32
C14_Witness ==
    /\ ChapterFilter /\ ata_filter = <<"X", "Y", "Z">> /\ Len(documents) = 3
    /\ \A i \in 1..3 : documents[i].doc_path[3] = "32"
    /\ result.breakdown.coverage.score = 15

\* C15: on the /diagnose path the returned certainty_score is at most 80 for
\* a fault isolation (the default task type) without an extracted likely
\* cause, at most 75 for a remove or install procedure without a numbered
\* step, and never above the score the scorer returned
C15_CallerCaps ==
    (Answered /\ path = "three_agent") =>
        /\ (task_type \in {"", "fault_isolation"} /\ response.likely_causes = 0)
              => response.certainty_score <= 80
        /\ (task_type \in {"remove_procedure", "install_procedure"}
              /\ ~locals.has_procedure_steps)
              => response.certainty_score <= 75
        /\ response.certainty_score <= result.score

\* an install procedure without steps, scored above 75 and answered with 75
C15_Witness ==
    /\ Answered /\ path = "three_agent" /\ task_type = "install_procedure"
    /\ ~locals.has_procedure_steps
    /\ result.score > 75 /\ response.certainty_score = 75

\* a fault isolation without likely causes, scored above 80 and answered with 80
C15_WitnessFaultIsolation ==
    /\ Answered /\ path = "three_agent" /\ task_type = "fault_isolation"
    /\ response.likely_causes = 0
    /\ result.score > 80 /\ response.certainty_score = 80

\* the gate conditions other than coverage, read from the returned breakdown,
\* the extracted flags and the task type the scorer was called with
GateConditionsButCoverage ==
    LET f == locals.scorer.facts.flags
    IN  /\ result.breakdown.system_analysis.score >= 75
        /\ result.breakdown.evidence.count >= 5
        /\ result.breakdown.query_alignment.score >= 70
        /\ f.has_specific_component
        /\ f.has_causal_reasoning
        /\ f.missing_subsystem_analysis = <<>>
        /\ \/ locals.scorer.facts.task_type
                 \notin {"fault_isolation", "operational_test", "functional_test"}
           \/ locals.scorer.facts.has_awdp
           \/ f.has_awdp_ref
        /\ (f.has_amp_ref \/ f.has_real_dmc \/ f.has_awdp_ref)

\* C16: can_exceed_95 is true exactly when all nine conditions hold:
\* system analysis >= 75, coverage >= 85, evidence_count >= 5, alignment >= 70,
\* specific component, causal reasoning, no missing subsystem, (not a fault
\* type or AWDP found or AWDP referenced), and an AMP/AMM, DMC or AWDP reference
C16_NineConditions ==
    Called =>
        (result.can_exceed_95
            <=> (result.breakdown.coverage.score >= 85 /\ GateConditionsButCoverage))

\* eight conditions hold and the coverage condition alone closes the gate
C16_Witness ==
    /\ Called /\ GateConditionsButCoverage
    /\ result.breakdown.coverage.score < 85 /\ ~result.can_exceed_95

\* the tier the claim gives to m matching documents out of n > 0, h of them
\* highly relevant, with r = m / n compared as a fraction
ClaimedCoverage(m, n, h) ==
    IF 5 * m < n THEN 15
    ELSE IF 2 * m < n THEN 40
    ELSE IF 5 * m < 4 * n THEN 65
    ELSE IF h < 3 THEN 85
    ELSE 100

\* C17: the coverage sub-score is 0 without documents, otherwise 15 / 40 /
\* 65 for r < 0.2 / 0.2 <= r < 0.5 / 0.5 <= r < 0.8, and 85 or 100 for
\* r >= 0.8 with fewer than / at least 3 highly relevant matching documents;
\* for the same total, more matching documents never give a lower sub-score
C17_CoverageTiers ==
    (Called /\ path = "scorer") =>
        LET n == Len(documents)
            m == Cardinality(matching_docs(documents, ata_filter))
            h == Cardinality(high_relevance_docs(documents, ata_filter))
            c == result.breakdown.coverage.score
        IN  /\ n = 0 => c = 0
            /\ n > 0 => c = ClaimedCoverage(m, n, h)
            /\ \A m2 \in m..n : \A h2 \in h..m2 :
                  c <= ClaimedCoverage(m2, n, h2)

\* one matching document out of five: r is exactly 0.2 and the sub-score 40
C17_Witness ==
    /\ Called /\ path = "scorer" /\ Len(documents) = 5
    /\ Cardinality(matching_docs(documents, ata_filter)) = 1
    /\ result.breakdown.coverage.score = 40

\* 1 for a true flag, 0 for a false one
Bit(b) == IF b THEN 1 ELSE 0

\* C18: the system-analysis sub-score is min(100, 25*component + 25*causal
\* + 20*mechanism + 15*location + 15*failure_mode), at most 30 when neither
\* component nor mechanism is present, at most 50 without causal reasoning,
\* and always within 0..100
C18_SystemAnalysis ==
    Called =>
        LET f == locals.scorer.facts.flags
            s == result.breakdown.system_analysis.score
            sum == 25 * Bit(f.has_specific_component) + 25 * Bit(f.has_causal_reasoning)
                   + 20 * Bit(f.has_mechanism_explanation)
                   + 15 * Bit(f.has_specific_location) + 15 * Bit(f.has_failure_mode)
        IN  /\ s \in 0..100
            /\ s = IF ~f.has_specific_component /\ ~f.has_mechanism_explanation
                   THEN Min(sum, 30)
                   ELSE IF ~f.has_causal_reasoning THEN Min(sum, 50)
                   ELSE Min(sum, 100)

\* component, mechanism, location and failure mode without causal reasoning:
\* the sum 75 is lowered to 50
C18_Witness ==
    /\ Called
    /\ locals.scorer.facts.flags.has_specific_component
    /\ locals.scorer.facts.flags.has_mechanism_explanation
    /\ locals.scorer.facts.flags.has_specific_location
    /\ locals.scorer.facts.flags.has_failure_mode
    /\ ~locals.scorer.facts.flags.has_causal_reasoning
    /\ result.breakdown.system_analysis.score = 50

\* the step function of the claim
EvidenceStep(n) ==
    CASE n = 0 -> 0
      [] n \in 1..2 -> 20
      [] n \in 3..4 -> 40
      [] n \in 5..6 -> 60
      [] n \in 7..9 -> 80
      [] n >= 10 -> 100

\* C19: the evidence sub-score is 0, 20, 40, 60, 80, 100 for an
\* evidence_count of 0, 1..2, 3..4, 5..6, 7..9, 10 or more, so that one more
\* piece of evidence never gives a smaller sub-score
C19_EvidenceSteps ==
    Called =>
        /\ result.breakdown.evidence.score = EvidenceStep(result.breakdown.evidence.count)
        /\ \A k \in 0..10 :
              result.breakdown.evidence.score
                 <= EvidenceStep(result.breakdown.evidence.count + k)

\* an evidence_count of exactly 10 reaches the top tier
C19_Witness ==
    /\ Called /\ result.breakdown.evidence.count = 10
    /\ result.breakdown.evidence.score = 100

\* the base of the claim for k = matched / total
AlignmentBase(matched, total) ==
    IF total = 0 THEN 50
    ELSE IF 5 * matched >= 3 * total THEN 100
    ELSE IF 5 * matched >= 2 * total THEN 70
    ELSE IF 5 * matched >= total THEN 45
    ELSE 20

\* the least element of a non-empty set of numbers
Least(S) == CHOOSE x \in S : \A y \in S : x <= y

\* C20: the alignment sub-score is the least of the keyword base (100, 70,
\* 45, 20 for k >= 0.6, 0.4, 0.2, below; 50 without keywords), 25 if a
\* subsystem is missing, 35 if the diagnosis is generic and 40 if the
\* electrical/mechanical mismatch holds, in whatever order they are taken
C20_Alignment ==
    Called =>
        LET f == locals.scorer.facts.flags
            generic == f.generic_phrase /\ ~f.has_specific_component
                          /\ ~f.has_mechanism_explanation
            mismatch == f.diagnosis_suggests_electrical /\ f.query_implies_mechanical
                           /\ ~f.has_mechanism_explanation
        IN  result.breakdown.query_alignment.score =
               Least({AlignmentBase(f.matched_keywords, f.query_keywords)}
                     \cup (IF mismatch THEN {40} ELSE {})
                     \cup (IF f.missing_subsystem_analysis # <<>> THEN {25} ELSE {})
                     \cup (IF generic THEN {35} ELSE {}))

\* two of five keywords matched: k is exactly 0.4 and no penalty lowers 70
C20_Witness ==
    /\ Called
    /\ locals.scorer.facts.flags.query_keywords = 5
    /\ locals.scorer.facts.flags.matched_keywords = 2
    /\ result.breakdown.query_alignment.score = 70

\* C21: the diagram-analysis sub-score is, for a fault type, 100 / 70 / 60 /
\* 20 as the AWDP document is found and referenced / found only / referenced
\* only / neither; for a procedure type 100 with an AMP/AMM or DMC reference
\* and 40 without; for any other task type 100 with an AMP/AMM, DMC or AWDP
\* reference and 50 without
C21_DiagramAnalysis ==
    Called =>
        LET t == locals.scorer.facts.task_type
            found == locals.scorer.facts.has_awdp
            f == locals.scorer.facts.flags
            s == result.breakdown.diagram_analysis.score
        IN  /\ t \in {"fault_isolation", "operational_test", "functional_test"} =>
                 /\ (found /\ f.has_awdp_ref) => s = 100
                 /\ (found /\ ~f.has_awdp_ref) => s = 70
                 /\ (~found /\ f.has_awdp_ref) => s = 60
                 /\ (~found /\ ~f.has_awdp_ref) => s = 20
            /\ t \in {"remove_procedure", "install_procedure", "disassembly", "assembly"} =>
                 s = IF f.has_amp_ref \/ f.has_real_dmc THEN 100 ELSE 40
            /\ t \notin {"fault_isolation", "operational_test", "functional_test",
                         "remove_procedure", "install_procedure", "disassembly",
                         "assembly"} =>
                 s = IF f.has_amp_ref \/ f.has_real_dmc \/ f.has_awdp_ref
                     THEN 100 ELSE 50

\* a functional test whose diagnosis refers to an AWDP that was not retrieved
C21_Witness ==
    /\ Called /\ locals.scorer.facts.task_type = "functional_test"
    /\ ~locals.scorer.facts.has_awdp /\ locals.scorer.facts.flags.has_awdp_ref
    /\ result.breakdown.diagram_analysis.score = 60

\* the entry the 95% gate adds when it lowers a score
GateEntry ==
    [text |-> "CAP 94%: Does not meet ALL strict criteria for SAFE_TO_PROCEED",
     subsystems |-> <<>>]

\* C29: whenever the score after the seven global caps is 95 or more the
\* nine gate conditions hold, so the 'CAP 94' entry never appears in
\* caps_applied and a returned 94 is never the work of the gate
C29_GateNeverBinds ==
    Called =>
        /\ locals.scorer.capped >= 95 * 100 => result.can_exceed_95
        /\ \A i \in DOMAIN result.caps_applied : result.caps_applied[i] # GateEntry
        /\ result.score = 94 => locals.scorer.capped \in (94 * 100 - 50)..(94 * 100 + 50)

\* the gate is evaluated on a capped score of 95 or more and lets it through
C29_Witness ==
    /\ Called /\ locals.scorer.capped >= 95 * 100
    /\ result.can_exceed_95 /\ result.score >= 95 /\ result.caps_applied = <<>>

\* the request was answered by the crew, not by the RAG-only fallback
CrewAnswered == Answered /\ path = "crewai" /\ response.source = "CrewAI 3-Tier System"

\* C30: with an empty document list the scorer returns coverage 0,
\* can_exceed_95 false and a score of at most 75; a request answered by the
\* crew (scored with an empty list) or made without documents is never
\* SAFE_TO_PROCEED
C30_NoDocuments ==
    /\ (Called /\ (documents = <<>> \/ CrewAnswered)) =>
          /\ result.breakdown.coverage.score = 0
          /\ ~result.can_exceed_95
          /\ result.score <= 75
    /\ (Answered /\ (documents = <<>> \/ CrewAnswered)) =>
          /\ response.certainty_score <= 75
          /\ response.certainty_status = "REQUIRE_EXPERT"

\* documents were retrieved, yet the crew's diagnosis is scored without them
C30_Witness ==
    /\ CrewAnswered /\ documents # <<>>
    /\ result.breakdown.coverage.score = 0 /\ result.score > 60
    /\ response.certainty_status = "REQUIRE_EXPERT"

\* the matching documents of the request whose similarity_score, the field
\* of DocumentMatch, is above 0.7
HighSimilarityScore ==
    {i \in matching_docs(documents, ata_filter) :
        Get(documents[i], "similarity_score", 0) > 70}

\* the scorer was given the documents of the request
ScoredDocuments == Called /\ path \in {"scorer", "three_agent", "rag_only"}

\* C23: a matching document with similarity_score > 0.7 counts as highly
\* relevant, so that a ratio >= 0.8 with at least 3 such documents gives
\* coverage 100
C23_SimilarityScoreCounts ==
    (/\ ScoredDocuments /\ documents # <<>>
     /\ 5 * Cardinality(matching_docs(documents, ata_filter)) >= 4 * Len(documents)
     /\ Cardinality(HighSimilarityScore) >= 3)
        => result.breakdown.coverage.score = 100

\* on the /diagnose path ten matching documents, three of them with
\* similarity_score 0.9, get coverage 85
C23_Witness ==
    /\ Answered /\ path = "three_agent" /\ Len(documents) = TopK
    /\ Cardinality(HighSimilarityScore) = 3
    /\ result.breakdown.coverage.score = 85

\* C22: /query returns at most top_k documents for every request, also when
\* an AWDP document is injected
C22_AtMostTopK ==
    (http.endpoint = "/query" /\ http.status_code = 200)
        => Len(http.documents) <= http.request.top_k

\* top_k documents without an AWDP one were found and the best AWDP document
\* was appended to them
C22_Witness ==
    /\ http.endpoint = "/query" /\ http.status_code = 200
    /\ Len(http.documents) = http.request.top_k + 1
    /\ http.documents[Len(http.documents)].doc_path = Entry(3).doc_path

\* the step serves a request at the endpoint
Serves(endpoint) == http'.n = http.n + 1 /\ http'.endpoint = endpoint

\* the step runs load_embeddings_index
Loads == Serves("/reload-index") \/ (~started /\ started')

\* C28: index_loaded = false implies an empty in-memory index; /query
\* answers 503 without a search while index_loaded is false; /health
\* reports "healthy" exactly when index_loaded is true; a load that fails
\* on reading or parsing empties the index and clears index_loaded, one that
\* fails because the file is missing leaves both unchanged
C28_IndexState ==
    /\ [](~index_loaded => embeddings_index = <<>>)
    /\ [][/\ (Serves("/query") /\ ~index_loaded) =>
                (http'.status_code = 503 /\ http'.documents = <<>>)
          /\ Serves("/health") =>
                /\ http'.status = "healthy" <=> index_loaded
                /\ http'.status = "degraded" <=> ~index_loaded
          /\ (Loads /\ file_path = Corrupt) =>
                (embeddings_index' = <<>> /\ ~index_loaded')
          /\ (Loads /\ file_path = Missing) =>
                UNCHANGED <<embeddings_index, index_loaded>>]_vars

\* an index that was loaded has been emptied by a reload of a damaged file
C28_Witness ==
    /\ http.endpoint = "/reload-index" /\ ~http.success
    /\ last_reload_time = 1 /\ file_path = Corrupt
    /\ ~index_loaded /\ embeddings_index = <<>>

\* the numbers of POST requests and of sleeps of the call in flight
Posts == Cardinality({i \in DOMAIN rag_query.events : rag_query.events[i].op = "post"})
SleepsAt == {i \in DOMAIN rag_query.events : rag_query.events[i].op = "sleep"}

C24_WitnessRecovered ==
    /\ rag_query.result = "data" /\ pc = "done" /\ Called
    /\ rag_query.events = <<Posted, Slept(1), Posted>>

\* the entries of embeddings.json, and how often a file is among them
Stored == Entries(embeddings_json)
TimesStored(file) == Cardinality({i \in DOMAIN Stored : Stored[i] = Embedded(file)})

\* C25: whatever runs were made, each input file is stored at most once, and
\* every file the resume offset of the current run skips is stored
C25_ResumeSafe ==
    /\ \A i \in DOMAIN all_files : TimesStored(all_files[i]) <= 1
    /\ ingestion.pc # "idle" =>
         \A i \in DOMAIN all_files :
           i - 1 < ingestion.processed => TimesStored(all_files[i]) >= 1

\* the first file failed and the two others were saved in one batch; the next
\* run skipped the first two files and stored the third a second time
C25_Witness ==
    /\ embeddings_json = ListFile(<<Embedded(2), Embedded(3), Embedded(3)>>)
    /\ ingestion.pc = "done" /\ ingestion.processed = 2

\* C26: a run that reached the end of the list and had no failed save has
\* stored every file it processed successfully and counted it in processed_files
C26_AllSavedAtEnd ==
    (ingestion.pc = "done" /\ ~ingestion.save_failed) =>
        /\ \A file \in ingestion.succeeded : TimesStored(file) >= 1
        /\ checkpoint_file.processed_files =
             ingestion.processed + Cardinality(ingestion.succeeded)

\* the run ended without a failed save, the last file having failed; a file
\* processed before it is in no file and in no count
C26_Witness ==
    /\ ingestion.pc = "done" /\ ~ingestion.save_failed /\ ingestion.runs = 1
    /\ ingestion.succeeded = {1, 2} /\ ingestion.BATCH_SIZE = NoIngestion.BATCH_SIZE
    /\ embeddings_json = Missing
    /\ checkpoint_file = Checkpoint(0)

\* C27: a call of append_embeddings that returns True leaves the previous list
\* followed by the batch, one that returns False leaves the list as it was
C27_AllOrNothing ==
    [][(ingestion.pc = "flush" /\ ingestion'.pc # "idle") =>
         Entries(embeddings_json') =
           IF ingestion'.pc = "saved"
           THEN Entries(embeddings_json) \o ingestion.batch
           ELSE Entries(embeddings_json)]_vars

\* a call returned True and the file holds the batch alone, the entries it
\* held before being gone: file 1 was saved by a first call and the second
\* call, for file 2, could not read the file
C27_Witness ==
    /\ ingestion.pc = "saved" /\ ingestion.BATCH_SIZE = 1
    /\ ingestion.batch = <<Embedded(2)>> /\ ingestion.saved_so_far = 1
    /\ ingestion.runs = 1
    /\ embeddings_json = ListFile(<<Embedded(2)>>)

====
